---- MODULE Spec2Model ----
(***************************************************************************)
(* State-machine model of the session lifecycle, scoring, violation and    *)
(* permission logging, screenshot capture, face verification and test      *)
(* management of the proctoring backend (FastAPI routes over SQLAlchemy     *)
(* services).  Tables are                                                  *)
(* sequences of rows in insertion order; one action models one service     *)
(* call or one route handler, commit included, or the part of a handler    *)
(* between two points where other requests can run.                        *)
(***************************************************************************)
EXTENDS Integers, Sequences, FiniteSets, TLC

\* ------------------------------------------------------------------ bounds
MaxSessions == 2      \* test_sessions rows ever created (lifecycle)
MaxFewSessions == 1   \* test_sessions rows ever created (scoring, child tables)
MaxUsers == 2         \* users rows ever created
MaxAnswers == 2       \* answers in one submission
MaxResponses == 2     \* user_responses rows ever stored
MaxViolations == 2    \* violations rows ever stored
MaxRows == 1          \* rows ever stored in each of the other child tables
MaxClock == 1         \* clock ticks (one tick stands for five minutes)
MaxRequests == 2      \* face requests whose handlers are suspended together
MaxVerifications == 2 \* face_verifications rows ever stored
MaxLogs == 2          \* proctorpermissionlog rows ever stored by racing calls
MaxThreads == 2       \* capture-loop threads alive together

\* ------------------------------------------------------- program constants
None == -1                 \* Python None / SQL NULL in an integer-valued field
IST_OFFSET == 66           \* Asia/Kolkata is UTC+5:30, i.e. 66 five-minute ticks
TIME_WINDOW == 1           \* time_window_minutes = 5, i.e. one tick
MAX_ERRORS == 3            \* ScreenshotService.max_errors

\* ------------------------------------------------------------ stored tests
\* the tests rows stored at the start (Test.test_id); test 3 has no questions
Tests == {1, 2, 3}
\* a tests row
TestRow(test_id, skill, num_questions) ==
    [test_id |-> test_id, skill |-> skill, num_questions |-> num_questions,
     duration |-> 30, created_by |-> 1]
\* the questions rows stored at the start: id -> test_id
Questions == (1 :> 1) @@ (2 :> 1) @@ (3 :> 2)
\* options rows: id -> [question_id, is_correct]
Options ==
    (1 :> [question_id |-> 1, is_correct |-> TRUE ]) @@
    (2 :> [question_id |-> 1, is_correct |-> FALSE]) @@
    (3 :> [question_id |-> 2, is_correct |-> TRUE ]) @@
    (4 :> [question_id |-> 3, is_correct |-> TRUE ])

\* keys of ViolationService.VIOLATION_TYPES
VIOLATION_TYPES ==
    {"camera_permission_denied", "microphone_permission_denied",
     "browser_compatibility_issue", "tab_switch", "window_blur",
     "fullscreen_exit", "keyboard_shortcut", "lighting_issue", "gaze_away",
     "multiple_faces", "audio_suspicious"}

\* PermissionLoggingService.VALID_PERMISSION_TYPES
VALID_PERMISSION_TYPES == {"camera", "microphone", "screen", "location"}

\* ------------------------------------------------------------ input spaces
SessionIdIn == 1 .. (MaxSessions + 1)
FewSessionIdIn == 1 .. (MaxFewSessions + 1)
\* answers of a submission (both keys are integers once the request schema
\* has validated them): the right and the wrong option of question 1, the
\* right option of a question of another test, and the right option of
\* question 1 given for question 2; question 1 is no question of tests 2, 3
Answer(q, o) == [question_id |-> q, selected_option_id |-> o]
AnswerIn == {Answer(1, 1), Answer(1, 2), Answer(1, 4), Answer(2, 1)}
\* answers to tests 1 and 2: the right and the wrong option of question 1, and
\* the right option of question 3, the only question of test 2
AnswerOwnIn == {Answer(1, 1), Answer(1, 2), Answer(3, 4)}
AnswersOwnIn == UNION {[1 .. n -> AnswerOwnIn] : n \in 0 .. MaxAnswers}
AnswersIn == UNION {[1 .. n -> AnswerIn] : n \in 0 .. MaxAnswers}
\* end_time of a submission: absent, or a timezone-aware (UTC) datetime
EndTimeIn == {[kind |-> "none", t |-> 0], [kind |-> "utc", t |-> 1]}
\* validate_session of utils/auth.py: the request proxy is unusable, no
\* token, a token the identity provider rejects, a token it accepts
AuthIn == {"no_context", "no_token", "invalid_token", "valid"}
RolesIn == {{}, {"candidate"}, {"admin"}}
ExamIdIn == {"exam1", "exam2"}

VARIABLES
    dialect,              \* "mssql" (foreign keys enforced) or "sqlite" fallback
    now,                  \* wall clock in ticks (UTC)
    users,                \* users table: set of rows
    next_user_id,
    sessions,             \* test_sessions table: id -> row
    next_session_id,
    user_responses,       \* user_responses table, insertion order
    violations,           \* violations table, insertion order
    next_violation_id,
    screen_captures,      \* screen_captures table
    snapshot_captures,    \* snapshot_captures table
    behavioral_anomalies, \* behavioral_anomalies table
    permission_logs,      \* proctorpermissionlog table
    screenshot,           \* the ScreenshotService singleton
    exam_results,         \* results/exam_<test_id>.json files
    face_verifications,   \* face_verifications table, insertion order
    next_verification_id,
    requests,             \* requests whose handler is suspended or preempted
    tests,                \* tests table: set of rows
    questions,            \* questions table: id -> test_id
    resp                  \* the last call and what it returned

vars == <<dialect, now, users, next_user_id, sessions, next_session_id,
          user_responses, violations, next_violation_id, screen_captures,
          snapshot_captures, behavioral_anomalies, permission_logs,
          screenshot, exam_results, face_verifications,
          next_verification_id, requests, tests, questions, resp>>

db_child == <<user_responses, violations, next_violation_id, screen_captures,
              snapshot_captures, behavioral_anomalies, permission_logs>>

db_face == <<face_verifications, next_verification_id, requests>>

db_test == <<tests, questions>>

\* the test_id values of the stored tests
TestIds == {t.test_id : t \in tests}

\* datetime.now(IST) stored in a DateTime column: the IST wall clock
NowIST == now + IST_OFFSET

\* callers on different threads work on the same database: the in-memory
\* SQLite fallback gives every thread a connection to a database of its own
SharedDatabase == dialect = "mssql"

\* the id a new row gets: SQL Server's IDENTITY never hands an id out twice;
\* SQLite's INTEGER PRIMARY KEY is one more than the largest id in the table
NewId(used, counter) ==
    IF dialect = "sqlite"
    THEN IF used = {} THEN 1
         ELSE 1 + CHOOSE m \in used : \A u \in used : u <= m
    ELSE counter

\* the last call and what it answered: the operation, its arguments (the
\* session id, the answers, whether a db was passed, the token and its roles)
\* and its result (status code, success, returned id, valid flag, listing)
Resp(op, sid, code, ok) ==
    [op |-> op, sid |-> sid, code |-> code, ok |-> ok, ret |-> None,
     valid |-> FALSE, list |-> <<>>, auth |-> "", roles |-> {},
     answers |-> <<>>, db |-> TRUE, req |-> <<>>]

Init ==
    /\ dialect \in {"mssql", "sqlite"}
    /\ now = 0
    /\ users = {[id |-> 1, name |-> "Admin", email |-> "admin@example.com",
                 role |-> "admin"]}
    /\ next_user_id = 2
    /\ sessions = <<>>
    /\ next_session_id = 1
    /\ user_responses = <<>>
    /\ violations = <<>>
    /\ next_violation_id = 1
    /\ screen_captures = <<>>
    /\ snapshot_captures = <<>>
    /\ behavioral_anomalies = <<>>
    /\ permission_logs = <<>>
    /\ screenshot = [is_running |-> FALSE, thread |-> "none",
                     current_session_id |-> None, error_count |-> 0]
    /\ exam_results = {}
    /\ face_verifications = <<>>
    /\ next_verification_id = 1
    /\ requests = {}
    /\ tests = {TestRow(t, "python", 2) : t \in Tests}
    /\ questions = Questions
    /\ resp = Resp("init", None, 0, TRUE)

\* time passes
Tick ==
    /\ now < MaxClock
    /\ now' = now + 1
    /\ resp' = Resp("tick", None, 0, TRUE)
    /\ UNCHANGED <<dialect, db_test, db_face, users, next_user_id, sessions,
                   next_session_id, db_child, screenshot, exam_results>>

\* ---------------------------------------------------------- create_session
\* NewSession with a score of 0 in place of None
NewSessionScoreZero(test_id, user, user_email) ==
    [test_id |-> test_id, user_id |-> user.id, user_name |-> user.name,
     user_email |-> user_email, start_time |-> NowIST,
     status |-> "in_progress", end_time |-> None, score |-> 0,
     total_questions |-> None, percentage |-> None]

\* the row create_session adds: in progress, with no results yet
NewSession(test_id, user, user_email) ==
    [test_id |-> test_id, user_id |-> user.id, user_name |-> user.name,
     user_email |-> user_email, start_time |-> NowIST,
     status |-> "in_progress", end_time |-> None, score |-> None,
     total_questions |-> None, percentage |-> None]

\* the user lookup by the user_id of the request
UserById(user_id, user_email) == {u \in users : u.id = user_id}

\* db.query(User).filter(User.email == user_email): the user_id of the
\* request plays no part
UserByEmail(user_id, user_email) == {u \in users : u.email = user_email}

\* the check that finds no value missing
NeverMissing(value) == FALSE

\* not user_email, not user_name: None and the empty string
Missing(value) == value = ""

\* TestSessionService.create_session: the test must exist, user_email is
\* required, the user is looked up by email and created (role candidate)
\* when absent and a user_name was given
create_session(max, test_id, user_id, user_name, user_email) ==
    LET found == UserByEmail(user_id, user_email)
        fails == \/ test_id \notin TestIds
                 \/ Missing(user_email)
                 \/ (found = {} /\ Missing(user_name))
        user == IF found # {} THEN CHOOSE u \in found : TRUE
                ELSE [id |-> next_user_id, name |-> user_name,
                      email |-> user_email, role |-> "candidate"]
        id == NewId(DOMAIN sessions, next_session_id)
    IN  /\ next_session_id <= max
        /\ (found = {} => next_user_id <= MaxUsers)
        /\ IF fails
           THEN /\ resp' = Resp("create_session", None, 500, FALSE)
                /\ UNCHANGED <<users, next_user_id, sessions, next_session_id>>
           ELSE /\ users' = users \cup {user}
                /\ next_user_id' = IF found = {} THEN next_user_id + 1
                                   ELSE next_user_id
                /\ sessions' = sessions @@
                                   (id :> NewSession(test_id, user, user_email))
                /\ next_session_id' = next_session_id + 1
                /\ resp' = [Resp("create_session", id, 200, TRUE)
                               EXCEPT !.ret = id]
        /\ UNCHANGED <<dialect, db_test, db_face, now, db_child, screenshot,
                       exam_results>>

\* a request for test 1 or for a test that is not stored, with and without
\* user_email and user_name
CreateSession ==
    \E test_id \in {1, 9}, user_id \in {None, 7}, user_name \in {"", "Cand"},
       user_email \in {"", "cand@example.com"} :
        create_session(MaxSessions, test_id, user_id, user_name, user_email)

\* the first session: a well-formed request for any stored test
CreateSessionAnyTest ==
    /\ DOMAIN sessions = {}
    /\ \E test_id \in Tests :
          create_session(MaxFewSessions, test_id, 7, "Cand",
                         "cand@example.com")

\* a well-formed request for test 1
CreateSessionTest1 ==
    create_session(MaxFewSessions, 1, 7, "Cand", "cand@example.com")

\* ------------------------------------------------------------- submit_test
\* question_map and option_map of submit_test: the questions of the
\* session's test, and the options of those questions
QuestionMap(test_id) == {q \in DOMAIN questions : questions[q] = test_id}

OptionMap(test_id) ==
    {o \in DOMAIN Options : Options[o].question_id \in QuestionMap(test_id)}

\* AnswerFound looking the option up among all stored options
AnswerFoundAnyOption(test_id, a) ==
    /\ a.question_id # None /\ a.selected_option_id # None
    /\ a.question_id \in QuestionMap(test_id)
    /\ a.selected_option_id \in DOMAIN Options

\* one pass of the answer loop: the answer is stored (and counted when its
\* option is correct) when its question and its option are both found
AnswerFound(test_id, a) ==
    /\ a.question_id # None /\ a.selected_option_id # None
    /\ a.question_id \in QuestionMap(test_id)
    /\ a.selected_option_id \in OptionMap(test_id)

\* the answer loop: acc = [correct, rows]
RECURSIVE ProcessAnswers(_, _, _, _, _)
ProcessAnswers(sid, test_id, answers, i, acc) ==
    IF i > Len(answers) THEN acc
    ELSE LET a == answers[i] IN
         IF AnswerFound(test_id, a)
         THEN LET is_correct == Options[a.selected_option_id].is_correct IN
              ProcessAnswers(sid, test_id, answers, i + 1,
                  [correct |-> IF is_correct THEN acc.correct + 1
                               ELSE acc.correct,
                   rows |-> Append(acc.rows,
                       [session_id |-> sid, question_id |-> a.question_id,
                        selected_option_id |-> a.selected_option_id,
                        is_correct |-> is_correct])])
         ELSE ProcessAnswers(sid, test_id, answers, i + 1, acc)

\* percentage = correct_answers / total_questions * 100, 0 without questions
\* (whole percents: the stored tests have one or two questions)
Percentage(correct_answers, total_questions) ==
    IF total_questions > 0 THEN (correct_answers * 100) \div total_questions
    ELSE 0

\* the end_time of a submission, converted to IST; now when absent or
\* unparsable
ConvertEndTime(e) ==
    CASE e.kind = "none" -> NowIST
      [] e.kind = "bad" -> NowIST
      [] e.kind = "naive" -> e.t
      [] e.kind = "utc" -> e.t + IST_OFFSET

\* Scored leaving the status of the session as it was
ScoredKeepingStatus(session, acc, end_time) ==
    LET total_questions == Cardinality(QuestionMap(session.test_id)) IN
    [session EXCEPT !.end_time = ConvertEndTime(end_time),
                    !.score = acc.correct,
                    !.total_questions = total_questions,
                    !.percentage = Percentage(acc.correct, total_questions)]

\* the results submit_test writes to the session row
Scored(session, acc, end_time) ==
    LET total_questions == Cardinality(QuestionMap(session.test_id)) IN
    [session EXCEPT !.end_time = ConvertEndTime(end_time),
                    !.score = acc.correct,
                    !.total_questions = total_questions,
                    !.percentage = Percentage(acc.correct, total_questions),
                    !.status = "completed"]

\* TestSessionService.submit_test: what it leaves in the database, and
\* whether it raised (unknown session)
SubmitOutcome(sid, answers, end_time) ==
    IF sid \notin DOMAIN sessions
    THEN [raised |-> TRUE, sessions |-> sessions,
          user_responses |-> user_responses]
    ELSE CHOOSE out \in
           {[raised |-> FALSE,
             sessions |-> [sessions EXCEPT
                             ![sid] = Scored(sessions[sid], acc, end_time)],
             user_responses |-> user_responses \o acc.rows] :
            acc \in {ProcessAnswers(sid, sessions[sid].test_id, answers, 1,
                                    [correct |-> 0, rows |-> <<>>])}} : TRUE

submit_frame ==
    UNCHANGED <<dialect, db_test, db_face, now, users, next_user_id,
                next_session_id, violations, next_violation_id,
                screen_captures, snapshot_captures, behavioral_anomalies,
                permission_logs, screenshot, exam_results>>

\* TestSessionService.submit_test
submit_test(sid, answers, end_time) ==
    \E out \in {SubmitOutcome(sid, answers, end_time)} :
        /\ Len(out.user_responses) <= MaxResponses
        /\ sessions' = out.sessions
        /\ user_responses' = out.user_responses
        /\ resp' = [Resp("submit_test", sid,
                          IF out.raised THEN 500 ELSE 200, ~out.raised)
                       EXCEPT !.answers = answers]
        /\ submit_frame

\* the fallback of both submit routes: a result without a score is scored
\* from the is_correct keys of the submitted answers, which they do not carry
RouteFallback(ss, sid, answers) ==
    IF ss[sid].score = None
    THEN [ss EXCEPT ![sid].score = 0,
                    ![sid].total_questions = Len(answers),
                    ![sid].percentage = 0,
                    ![sid].status = "completed"]
    ELSE ss

\* a submit route: the service call, the fallback, and the status code
submit_route(op, not_found, sid, answers, end_time) ==
    \E out \in {SubmitOutcome(sid, answers, end_time)} :
        /\ Len(out.user_responses) <= MaxResponses
        /\ sessions' = IF out.raised THEN out.sessions
                       ELSE RouteFallback(out.sessions, sid, answers)
        /\ user_responses' = out.user_responses
        /\ resp' = [Resp(op, sid, IF out.raised THEN not_found ELSE 200,
                          ~out.raised)
                       EXCEPT !.answers = answers]
        /\ submit_frame

\* POST /api/sessions/submit: the service's ValueError for an unknown
\* session is answered with 500
submit_test_route(sid, answers, end_time) ==
    submit_route("POST /api/sessions/submit", 500, sid, answers, end_time)

\* POST /api/sessions/{session_id}/submit: the route looks the session up
\* itself and answers 404 when it is not stored
submit_test_by_id(sid, answers, end_time) ==
    submit_route("POST /api/sessions/{id}/submit", 404, sid, answers,
                 end_time)

\* submissions of at most one answer to question 1
SubmitTest ==
    \E sid \in SessionIdIn, answers \in {<<>>, <<Answer(1, 1)>>},
       end_time \in EndTimeIn :
        submit_test(sid, answers, end_time)

SubmitTestRoute ==
    \E sid \in SessionIdIn, answers \in {<<>>, <<Answer(1, 1)>>} :
        submit_test_route(sid, answers, [kind |-> "none", t |-> 0])

SubmitTestById ==
    \E sid \in SessionIdIn, answers \in {<<>>, <<Answer(1, 1)>>} :
        submit_test_by_id(sid, answers, [kind |-> "none", t |-> 0])

\* submissions of every list of answers, without an end_time
SubmitTestAnswers ==
    \E sid \in {1, 2}, answers \in AnswersIn :
        submit_test(sid, answers, [kind |-> "none", t |-> 0])

\* ------------------------------------------------------- terminate_session
\* ScreenshotService.is_active: a set flag with a dead thread is reset
IsActive(svc) ==
    IF svc.is_running /\ svc.thread = "dead"
    THEN [svc EXCEPT !.is_running = FALSE]
    ELSE svc

\* the screenshot block of terminate_session: is_active() runs; when it
\* returns True the call of get_current_test_id, a method the service does
\* not have, raises before stop_for_test is reached
TerminateScreenshot(svc, sid) ==
    [svc |-> IsActive(svc), raised |-> IsActive(svc).is_running]

\* an except clause that raises again what the screenshot block raised
ScreenshotErrorReraised(raised) == raised

\* except Exception around the screenshot block: the error is logged and
\* nothing leaves the block
ScreenshotErrorEscapes(raised) == FALSE

\* the status check that lets a completed session through
AlreadyTerminated(status) == status = "terminated"

\* session.status in ["terminated", "completed"]
AlreadyEnded(status) == status \in {"terminated", "completed"}

\* TestSessionService.terminate_session: what it leaves behind, and whether
\* it raised (unknown session); a completed or terminated session is returned
\* as it is
TerminateOutcome(sid) ==
    IF sid \notin DOMAIN sessions
    THEN [raised |-> TRUE, sessions |-> sessions, screenshot |-> screenshot]
    ELSE IF AlreadyEnded(sessions[sid].status)
    THEN [raised |-> FALSE, sessions |-> sessions, screenshot |-> screenshot]
    ELSE IF ScreenshotErrorEscapes(TerminateScreenshot(screenshot, sid).raised)
    THEN [raised |-> TRUE, sessions |-> sessions,
          screenshot |-> TerminateScreenshot(screenshot, sid).svc]
    ELSE [raised |-> FALSE,
          sessions |-> [sessions EXCEPT ![sid].status = "terminated",
                                        ![sid].end_time = NowIST],
          screenshot |-> TerminateScreenshot(screenshot, sid).svc]

terminate_frame ==
    UNCHANGED <<dialect, db_test, db_face, now, users, next_user_id,
                next_session_id, db_child, exam_results>>

\* TestSessionService.terminate_session
terminate_session(sid) ==
    \E out \in {TerminateOutcome(sid)} :
        /\ sessions' = out.sessions
        /\ screenshot' = out.screenshot
        /\ resp' = Resp("terminate_session", sid,
                        IF out.raised THEN 500 ELSE 200, ~out.raised)
        /\ terminate_frame

\* the status code of POST /api/sessions/{session_id}/terminate: the service
\* raises ValueError for an unknown session, which the handler turns into 500;
\* its own 404 needs a service that returns nothing
TerminateRouteCode(raised) == IF raised THEN 500 ELSE 200

\* POST /api/sessions/{session_id}/terminate
terminate_session_route(sid) ==
    \E out \in {TerminateOutcome(sid)} :
        /\ sessions' = out.sessions
        /\ screenshot' = out.screenshot
        /\ resp' = Resp("POST /api/sessions/{id}/terminate", sid,
                        TerminateRouteCode(out.raised), ~out.raised)
        /\ terminate_frame

TerminateSession == \E sid \in SessionIdIn : terminate_session(sid)

TerminateSessionRoute == \E sid \in SessionIdIn : terminate_session_route(sid)

\* ---------------------------------------------------------- delete_session
\* the rows of a child table that do not belong to session sid
Without(rows, sid) == SelectSeq(rows, LAMBDA r : r.session_id # sid)

\* the child tables TestSession cascades its delete to; proctorpermissionlog
\* is not among its relationships
Cascade(sid) ==
    [violations |-> Without(violations, sid),
     screen_captures |-> Without(screen_captures, sid),
     behavioral_anomalies |-> Without(behavioral_anomalies, sid),
     user_responses |-> Without(user_responses, sid),
     snapshot_captures |-> Without(snapshot_captures, sid),
     permission_logs |-> permission_logs]

\* a permission log still references the session: the foreign key of
\* proctorpermissionlog.examSessionId rejects the delete where the database
\* enforces foreign keys
DeleteRejected(sid) ==
    /\ dialect = "mssql"
    /\ \E i \in 1 .. Len(permission_logs) : permission_logs[i].examSessionId = sid

\* TestSessionService.delete_session: raises for an unknown session and for
\* a rejected delete, otherwise deletes the session with its cascade
delete_session_call(op, code_of, sid) ==
    LET raised == sid \notin DOMAIN sessions \/ DeleteRejected(sid) IN
    /\ IF raised
       THEN UNCHANGED <<sessions, db_child>>
       ELSE \E c \in {Cascade(sid)} :
            /\ sessions' = [s \in DOMAIN sessions \ {sid} |-> sessions[s]]
            /\ violations' = c.violations
            /\ screen_captures' = c.screen_captures
            /\ behavioral_anomalies' = c.behavioral_anomalies
            /\ user_responses' = c.user_responses
            /\ snapshot_captures' = c.snapshot_captures
            /\ permission_logs' = c.permission_logs
            /\ UNCHANGED next_violation_id
    /\ resp' = Resp(op, sid, code_of[raised], ~raised)
    /\ UNCHANGED <<dialect, db_test, db_face, now, users, next_user_id,
                   next_session_id, screenshot, exam_results>>

ServiceCode(raised) == IF raised THEN 500 ELSE 200

delete_session(sid) ==
    delete_session_call("delete_session",
                        [raised \in BOOLEAN |-> ServiceCode(raised)], sid)

\* the status code of DELETE /api/sessions/{session_id}: the service raises
\* ValueError for an unknown session, which the handler turns into 500
DeleteRouteCode(raised) == IF raised THEN 500 ELSE 204

\* DELETE /api/sessions/{session_id}
delete_session_route(sid) ==
    delete_session_call("DELETE /api/sessions/{id}",
                        [raised \in BOOLEAN |-> DeleteRouteCode(raised)], sid)

DeleteSession == \E sid \in SessionIdIn : delete_session(sid)

DeleteSessionRoute == \E sid \in SessionIdIn : delete_session_route(sid)

\* -------------------------------------------------------- validate_session
\* ValidStatus accepting every session that was not terminated
ValidStatusNotTerminated(sid) ==
    IF sid \in DOMAIN sessions THEN sessions[sid].status # "terminated"
    ELSE FALSE

\* the valid flag of GET /api/sessions/validate/{session_id}
ValidStatus(sid) ==
    IF sid \notin DOMAIN sessions THEN FALSE
    ELSE sessions[sid].status = "in_progress"

\* GET /api/sessions/validate/{session_id}
validate_session_route(sid) ==
    /\ resp' = [Resp("GET /api/sessions/validate/{id}", sid, 200, TRUE)
                   EXCEPT !.valid = ValidStatus(sid)]
    /\ UNCHANGED <<dialect, db_test, db_face, now, users, next_user_id,
                   sessions, next_session_id, db_child, screenshot,
                   exam_results>>

ValidateSessionRoute == \E sid \in SessionIdIn : validate_session_route(sid)

Next ==
    \/ CreateSession
    \/ SubmitTest
    \/ SubmitTestRoute
    \/ SubmitTestById
    \/ TerminateSession
    \/ TerminateSessionRoute
    \/ DeleteSession
    \/ DeleteSessionRoute
    \/ ValidateSessionRoute

Spec == Init /\ [][Next]_vars

NextScore == CreateSessionAnyTest \/ SubmitTestAnswers

SpecScore == Init /\ [][NextScore]_vars

\* submissions of every list of answers to the test's own questions
SubmitTestOwnAnswers ==
    \E sid \in {1, 2}, answers \in AnswersOwnIn :
        submit_test(sid, answers, [kind |-> "none", t |-> 0])

NextRepeat == CreateSessionAnyTest \/ SubmitTestOwnAnswers

SpecRepeat == Init /\ [][NextRepeat]_vars

\* ------------------------------------------------------ screenshot service
\* start_for_test without the check of the flag
start_for_test_unguarded(svc, session_id) ==
    [ret |-> TRUE,
     svc |-> [is_running |-> TRUE, thread |-> "alive",
              current_session_id |-> session_id, error_count |-> 0]]

\* ScreenshotService.start_for_test: refused while the flag is set; otherwise
\* a new capture thread is started for the session (a thread that outlived
\* the join of stop_for_test sees the flag set again and goes on looping)
start_for_test(svc, session_id) ==
    IF svc.is_running
    THEN [ret |-> FALSE, svc |-> svc]
    ELSE [ret |-> TRUE,
          svc |-> [is_running |-> TRUE, thread |-> "alive",
                   current_session_id |-> session_id, error_count |-> 0]]

\* ScreenshotService.stop_for_test: the flag is cleared and the thread is
\* joined for at most ten seconds, after which it has exited or not
stop_for_test(svc) ==
    IF ~svc.is_running
    THEN {[ret |-> FALSE, svc |-> svc]}
    ELSE {[ret |-> TRUE,
           svc |-> [svc EXCEPT !.is_running = FALSE, !.thread = t,
                               !.current_session_id = None]] :
            t \in IF svc.thread = "alive" THEN {"alive", "dead"}
                  ELSE {svc.thread}}

\* the capture loop sees the cleared flag and returns
ThreadExit ==
    /\ screenshot.thread = "alive" /\ ~screenshot.is_running
    /\ screenshot' = [screenshot EXCEPT !.thread = "dead"]
    /\ resp' = Resp("_capture_loop", None, 0, TRUE)
    /\ UNCHANGED <<dialect, db_test, db_face, now, users, next_user_id,
                   sessions, next_session_id, db_child, exam_results>>

\* POST /api/proctoring/screenshots/start: a missing session_id raises 400
\* inside the try block, whose except clause answers 500
start_screenshot_service(session_id) ==
    /\ IF session_id = 0
       THEN /\ resp' = Resp("POST /api/proctoring/screenshots/start",
                            session_id, 500, FALSE)
            /\ UNCHANGED screenshot
       ELSE \E out \in {start_for_test(screenshot, session_id)} :
               /\ screenshot' = out.svc
               /\ resp' = Resp("POST /api/proctoring/screenshots/start",
                               session_id, 200, out.ret)
    /\ UNCHANGED <<dialect, db_test, db_face, now, users, next_user_id,
                   sessions, next_session_id, db_child, exam_results>>

\* POST /api/proctoring/screenshots/stop
stop_screenshot_service ==
    /\ \E out \in stop_for_test(screenshot) :
          /\ screenshot' = out.svc
          /\ resp' = Resp("POST /api/proctoring/screenshots/stop", None, 200,
                          out.ret)
    /\ UNCHANGED <<dialect, db_test, db_face, now, users, next_user_id,
                   sessions, next_session_id, db_child, exam_results>>

StartScreenshotService ==
    \E session_id \in 0 .. MaxFewSessions + 1 :
        start_screenshot_service(session_id)

\* ------------------------------------------------------------ exam routes
\* utils.auth.validate_session: get_auth_token reads the Flask request, which
\* raises outside a Flask request context; without a bearer token or with a
\* token Descope rejects an error is returned; otherwise the token's claims
validate_session(auth) ==
    CASE auth = "no_context" -> "raises"
      [] auth = "no_token" -> "error"
      [] auth = "invalid_token" -> "error"
      [] auth = "valid" -> "response"

\* the checks at the head of start_exam and submit_exam: the status of the
\* HTTPException they raise, 0 for another exception, 200 when they pass
ExamGate(auth, roles) ==
    CASE validate_session(auth) = "raises" -> 0
      [] validate_session(auth) = "error" -> 401
      [] validate_session(auth) = "response" ->
            IF "candidate" \notin roles THEN 403 ELSE 200

\* except Exception around the whole handler body: whatever was raised,
\* an HTTPException included, is answered with 500
ExamExcept(raised) == 500

ExamResp(op, auth, roles, code) ==
    [Resp(op, None, code, code = 200) EXCEPT !.auth = auth, !.roles = roles]

\* POST /api/exam/start: past the checks generate_test is called directly
\* with a request that has no test_id, which raises
start_exam(auth, roles) ==
    /\ resp' = ExamResp("POST /api/exam/start", auth, roles,
                        ExamExcept(ExamGate(auth, roles)))
    /\ UNCHANGED <<dialect, db_test, db_face, now, users, next_user_id,
                   sessions, next_session_id, db_child, screenshot,
                   exam_results>>

\* POST /api/exam/submit: past the checks the result file is written and the
\* screenshot service stopped
submit_exam(auth, roles, test_id) ==
    /\ IF ExamGate(auth, roles) = 200
       THEN /\ exam_results' = exam_results \cup {test_id}
            /\ \E out \in stop_for_test(screenshot) : screenshot' = out.svc
            /\ resp' = ExamResp("POST /api/exam/submit", auth, roles, 200)
       ELSE /\ resp' = ExamResp("POST /api/exam/submit", auth, roles,
                                ExamExcept(ExamGate(auth, roles)))
            /\ UNCHANGED <<screenshot, exam_results>>
    /\ UNCHANGED <<dialect, db_test, db_face, now, users, next_user_id,
                   sessions, next_session_id, db_child>>

StartExam == \E auth \in AuthIn, roles \in RolesIn : start_exam(auth, roles)

SubmitExam ==
    \E auth \in AuthIn, roles \in RolesIn, test_id \in ExamIdIn :
        submit_exam(auth, roles, test_id)

NextExam ==
    \/ StartExam
    \/ SubmitExam
    \/ StartScreenshotService
    \/ stop_screenshot_service
    \/ ThreadExit

SpecExam == Init /\ [][NextExam]_vars

\* --------------------------------------------------------------- violations
ViolationTypeIn == {"tab_switch", "copy_paste"}
PermissionTypeIn == {"camera", "screen", "bluetooth"}
TimestampIn == {None, 0}

violation_frame ==
    UNCHANGED <<dialect, db_test, db_face, now, users, next_user_id, sessions,
                next_session_id, user_responses, screen_captures,
                snapshot_captures, behavioral_anomalies, permission_logs,
                screenshot, exam_results>>

\* the session check that lets every session id through
session_exists_always(session_id) == TRUE

\* db.query(TestSession).filter(TestSession.id == session_id).first()
session_exists(session_id) == session_id \in DOMAIN sessions

\* the violations row both services add
ViolationRow(session_id, violation_type, timestamp) ==
    [id |-> NewId({violations[i].id : i \in 1 .. Len(violations)},
                  next_violation_id),
     session_id |-> session_id,
     violation_type |-> violation_type, timestamp |-> timestamp]

\* ViolationService.log_violation: nothing is stored and None is returned
\* without a db or for an unknown session; an unknown violation type is only
\* logged as a warning; the timestamp defaults to the current time in IST
LogViolation(db, session_id, violation_type, timestamp) ==
    IF ~db \/ ~session_exists(session_id)
    THEN [ret |-> None, violations |-> violations,
          next_violation_id |-> next_violation_id]
    ELSE [ret |-> ViolationRow(session_id, violation_type, None).id,
          violations |-> Append(violations,
              ViolationRow(session_id, violation_type,
                           IF timestamp # None THEN timestamp ELSE NowIST)),
          next_violation_id |-> next_violation_id + 1]

log_violation(db, session_id, violation_type, timestamp) ==
    \E out \in {LogViolation(db, session_id, violation_type, timestamp)} :
        /\ Len(out.violations) <= MaxViolations
        /\ violations' = out.violations
        /\ next_violation_id' = out.next_violation_id
        /\ resp' = [Resp("log_violation", session_id, 200, out.ret # None)
                       EXCEPT !.ret = out.ret, !.db = db]
        /\ violation_frame

\* the violation type log_permission_event logs for a denied permission
DeniedViolationType(permission_type) ==
    CASE permission_type = "camera" -> "camera_permission_denied"
      [] permission_type = "microphone" -> "microphone_permission_denied"
      [] permission_type = "screen" -> "screen_permission_denied"
      [] permission_type = "location" -> "location_permission_denied"

\* PermissionLoggingService.log_permission_event: False for an unsupported
\* permission type; a denied permission is logged as a violation; True
\* whether or not that violation was stored
log_permission_event(session_id, permission_type, granted) ==
    /\ IF permission_type \notin VALID_PERMISSION_TYPES
       THEN /\ resp' = Resp("log_permission_event", session_id, 500, FALSE)
            /\ UNCHANGED <<violations, next_violation_id>>
       ELSE IF granted
       THEN /\ resp' = Resp("log_permission_event", session_id, 200, TRUE)
            /\ UNCHANGED <<violations, next_violation_id>>
       ELSE \E out \in {LogViolation(TRUE, session_id,
                            DeniedViolationType(permission_type), None)} :
               /\ Len(out.violations) <= MaxViolations
               /\ violations' = out.violations
               /\ next_violation_id' = out.next_violation_id
               /\ resp' = Resp("log_permission_event", session_id, 200, TRUE)
    /\ violation_frame

\* a session lookup that finds every session
ViolationSessionAssumed(session_id) == TRUE

\* db.query(TestSession).filter(TestSession.id == violation.session_id).first()
ViolationSessionFound(session_id) == session_id \in DOMAIN sessions

\* ProctoringService.record_violation: raises without a db; for an unknown
\* session nothing is stored and a placeholder with id 0 is returned;
\* the timestamp defaults to the current time in UTC
record_violation(db, session_id, violation_type, timestamp) ==
    /\ IF ~db
       THEN /\ resp' = Resp("record_violation", session_id, 500, FALSE)
            /\ UNCHANGED <<violations, next_violation_id>>
       ELSE IF ~ViolationSessionFound(session_id)
       THEN /\ resp' = [Resp("record_violation", session_id, 200, TRUE)
                           EXCEPT !.ret = 0]
            /\ UNCHANGED <<violations, next_violation_id>>
       ELSE /\ Len(violations) < MaxViolations
            /\ violations' = Append(violations,
                  ViolationRow(session_id, violation_type,
                               IF timestamp # None THEN timestamp ELSE now))
            /\ next_violation_id' = next_violation_id + 1
            /\ resp' = [Resp("record_violation", session_id, 200, TRUE)
                           EXCEPT !.ret = violations'[Len(violations')].id]
    /\ violation_frame

\* the rows in the order they were stored
OrderByInsertion(rows) == {rows}

\* ORDER BY timestamp: the rows by non-decreasing timestamp, rows of equal
\* timestamp in any order
OrderByTimestamp(rows) ==
    {s \in [1 .. Len(rows) -> {rows[i] : i \in 1 .. Len(rows)}] :
        /\ \A i, j \in 1 .. Len(rows) : i # j => s[i] # s[j]
        /\ \A i \in 1 .. Len(rows) - 1 : s[i].timestamp <= s[i + 1].timestamp}

\* db.query(Violation).filter(session_id == ...).order_by(Violation.timestamp)
QueryViolations(session_id) ==
    OrderByTimestamp(SelectSeq(violations,
                               LAMBDA r : r.session_id = session_id))

list_violations(op, session_id) ==
    /\ \E rows \in QueryViolations(session_id) :
          resp' = [Resp(op, session_id, 200, TRUE) EXCEPT !.list = rows]
    /\ UNCHANGED <<violations, next_violation_id>>
    /\ violation_frame

\* ProctoringService.get_session_violations
get_session_violations(session_id) ==
    list_violations("get_session_violations", session_id)

\* ViolationService.get_session_violations_summary
get_session_violations_summary(session_id) ==
    list_violations("get_session_violations_summary", session_id)

LogViolationCall ==
    \E db \in BOOLEAN, session_id \in FewSessionIdIn,
       violation_type \in ViolationTypeIn, timestamp \in TimestampIn :
        log_violation(db, session_id, violation_type, timestamp)

LogPermissionEvent ==
    \E session_id \in FewSessionIdIn, permission_type \in PermissionTypeIn,
       granted \in BOOLEAN :
        log_permission_event(session_id, permission_type, granted)

LogTabSwitchAt ==
    \E session_id \in FewSessionIdIn, timestamp \in TimestampIn :
        log_violation(TRUE, session_id, "tab_switch", timestamp)

RecordViolation ==
    \E db \in BOOLEAN, session_id \in FewSessionIdIn,
       timestamp \in TimestampIn :
        record_violation(db, session_id, "tab_switch", timestamp)

GetSessionViolations ==
    \E session_id \in FewSessionIdIn : get_session_violations(session_id)

GetSessionViolationsSummary ==
    \E session_id \in FewSessionIdIn :
        get_session_violations_summary(session_id)

NextViolation ==
    \/ CreateSessionTest1
    \/ LogViolationCall
    \/ LogPermissionEvent

SpecViolation == Init /\ [][NextViolation]_vars

NextListing ==
    \/ CreateSessionTest1
    \/ Tick
    \/ LogTabSwitchAt
    \/ RecordViolation
    \/ GetSessionViolations
    \/ GetSessionViolationsSummary

SpecListing == Init /\ [][NextListing]_vars

\* ------------------------------------------------------ other child tables
PathIn == {"test_1/a.png"}

\* the database rejects a row whose session does not exist where it enforces
\* foreign keys
ForeignKeyFails(session_id) ==
    dialect = "mssql" /\ session_id \notin DOMAIN sessions

media_frame ==
    UNCHANGED <<dialect, db_test, db_face, now, users, next_user_id, sessions,
                next_session_id, user_responses, violations, next_violation_id,
                screenshot, exam_results>>

\* ProctoringService.save_screen_capture: for an unknown session nothing is
\* stored and a placeholder with id 0 is returned
save_screen_capture(session_id, image_path) ==
    /\ IF session_id \notin DOMAIN sessions
       THEN /\ resp' = [Resp("save_screen_capture", session_id, 200, TRUE)
                           EXCEPT !.ret = 0]
            /\ UNCHANGED screen_captures
       ELSE /\ Len(screen_captures) < MaxRows
            /\ screen_captures' = Append(screen_captures,
                  [session_id |-> session_id, image_path |-> image_path])
            /\ resp' = Resp("save_screen_capture", session_id, 200, TRUE)
    /\ UNCHANGED <<snapshot_captures, behavioral_anomalies, permission_logs>>
    /\ media_frame

\* MediaDatabaseService.create_screen_capture_entry and
\* create_snapshot_capture_entry: True when the entry is already there;
\* the session is not looked up, so the insert fails only on the foreign key
MediaEntry(rows, session_id, image_path) ==
    IF \E i \in 1 .. Len(rows) : /\ rows[i].session_id = session_id
                                 /\ rows[i].image_path = image_path
    THEN [ret |-> TRUE, rows |-> rows]
    ELSE IF ForeignKeyFails(session_id)
    THEN [ret |-> FALSE, rows |-> rows]
    ELSE [ret |-> TRUE,
          rows |-> Append(rows, [session_id |-> session_id,
                                 image_path |-> image_path])]

create_screen_capture_entry(session_id, image_path) ==
    /\ \E out \in {MediaEntry(screen_captures, session_id, image_path)} :
          /\ Len(out.rows) <= MaxRows
          /\ screen_captures' = out.rows
          /\ resp' = Resp("create_screen_capture_entry", session_id, 200,
                          out.ret)
    /\ UNCHANGED <<snapshot_captures, behavioral_anomalies, permission_logs>>
    /\ media_frame

create_snapshot_capture_entry(session_id, image_path) ==
    /\ \E out \in {MediaEntry(snapshot_captures, session_id, image_path)} :
          /\ Len(out.rows) <= MaxRows
          /\ snapshot_captures' = out.rows
          /\ resp' = Resp("create_snapshot_capture_entry", session_id, 200,
                          out.ret)
    /\ UNCHANGED <<screen_captures, behavioral_anomalies, permission_logs>>
    /\ media_frame

\* ProctoringService.record_behavioral_anomaly: for an unknown session
\* nothing is stored and a placeholder with id 0 is returned
record_behavioral_anomaly(session_id) ==
    /\ IF session_id \notin DOMAIN sessions
       THEN /\ resp' = [Resp("record_behavioral_anomaly", session_id, 200,
                             TRUE) EXCEPT !.ret = 0]
            /\ UNCHANGED behavioral_anomalies
       ELSE /\ Len(behavioral_anomalies) < MaxRows
            /\ behavioral_anomalies' = Append(behavioral_anomalies,
                  [session_id |-> session_id, anomaly_type |-> "gaze"])
            /\ resp' = Resp("record_behavioral_anomaly", session_id, 200,
                            TRUE)
    /\ UNCHANGED <<screen_captures, snapshot_captures, permission_logs>>
    /\ media_frame

\* ---------------------------------------------------- proctor permission logs
\* ProctorPermissionService._check_recent_permission: a log of the same
\* session, type and outcome within the time window
CheckRecentPermission(session_id, permission_type, granted) ==
    \E i \in 1 .. Len(permission_logs) :
        /\ permission_logs[i].examSessionId = session_id
        /\ permission_logs[i].permissionType = permission_type
        /\ permission_logs[i].granted = granted
        /\ permission_logs[i].timeStamp >= now - TIME_WINDOW

\* the insert of a permission log: the row is stored, or the insert raises
\* and None is returned (a rejected foreign key; the ORM refusing the
\* mapping, whose relationship names a property TestSession does not have)
InsertPermission(session_id, permission_type, granted) ==
    {[ret |-> FALSE, rows |-> permission_logs]} \cup
    IF ForeignKeyFails(session_id) THEN {}
    ELSE {[ret |-> TRUE,
           rows |-> Append(permission_logs,
                      [examSessionId |-> session_id,
                       permissionType |-> permission_type,
                       granted |-> granted, timeStamp |-> now])]}

permission_call(op, session_id, outs) ==
    /\ \E out \in outs :
          /\ Len(out.rows) <= MaxRows
          /\ permission_logs' = out.rows
          /\ resp' = Resp(op, session_id, 200, out.ret)
    /\ UNCHANGED <<screen_captures, snapshot_captures, behavioral_anomalies>>
    /\ media_frame

\* ProctorPermissionService.log_permission: None for an unknown session and
\* for a recent duplicate
log_permission(session_id, permission_type, granted) ==
    permission_call("log_permission", session_id,
        IF \/ session_id \notin DOMAIN sessions
           \/ CheckRecentPermission(session_id, permission_type, granted)
        THEN {[ret |-> FALSE, rows |-> permission_logs]}
        ELSE InsertPermission(session_id, permission_type, granted))

\* ProctorPermissionService.log_camera_permission: None for a recent
\* duplicate; the session is not looked up
log_camera_permission(session_id, granted) ==
    permission_call("log_camera_permission", session_id,
        IF CheckRecentPermission(session_id, "camera", granted)
        THEN {[ret |-> FALSE, rows |-> permission_logs]}
        ELSE InsertPermission(session_id, "camera", granted))

SubmitOneAnswer ==
    \E sid \in FewSessionIdIn :
        submit_test(sid, <<Answer(1, 1)>>, [kind |-> "none", t |-> 0])

LogTabSwitch ==
    \E session_id \in FewSessionIdIn :
        log_violation(TRUE, session_id, "tab_switch", None)

SaveScreenCapture ==
    \E session_id \in FewSessionIdIn, image_path \in PathIn :
        save_screen_capture(session_id, image_path)

CreateScreenCaptureEntry ==
    \E session_id \in FewSessionIdIn, image_path \in PathIn :
        create_screen_capture_entry(session_id, image_path)

CreateSnapshotCaptureEntry ==
    \E session_id \in FewSessionIdIn, image_path \in PathIn :
        create_snapshot_capture_entry(session_id, image_path)

RecordBehavioralAnomaly ==
    \E session_id \in FewSessionIdIn : record_behavioral_anomaly(session_id)

LogPermission ==
    \E session_id \in FewSessionIdIn, permission_type \in {"microphone"},
       granted \in BOOLEAN :
        log_permission(session_id, permission_type, granted)

LogCameraPermission ==
    \E session_id \in FewSessionIdIn, granted \in BOOLEAN :
        log_camera_permission(session_id, granted)

DeleteFewSessions == \E sid \in FewSessionIdIn : delete_session(sid)

NextDelete ==
    \/ CreateSessionTest1
    \/ SubmitOneAnswer
    \/ LogTabSwitch
    \/ SaveScreenCapture
    \/ CreateScreenCaptureEntry
    \/ CreateSnapshotCaptureEntry
    \/ RecordBehavioralAnomaly
    \/ LogPermission
    \/ LogCameraPermission
    \/ DeleteFewSessions

SpecDelete == Init /\ [][NextDelete]_vars

\* ------------------------------------------------------------ capture loop
\* one pass of _capture_loop that saved a screenshot: the file is entered in
\* screen_captures for the service's current session, whether or not that
\* worked, and the error count is reset
capture_saved(image_path) ==
    /\ screenshot.thread = "alive" /\ screenshot.is_running
    /\ \E out \in {MediaEntry(screen_captures, screenshot.current_session_id,
                              image_path)} :
          /\ Len(out.rows) <= MaxRows
          /\ screen_captures' = out.rows
    /\ screenshot' = [screenshot EXCEPT !.error_count = 0]
    /\ resp' = Resp("_capture_loop", screenshot.current_session_id, 0, TRUE)
    /\ UNCHANGED <<snapshot_captures, behavioral_anomalies, permission_logs>>
    /\ media_frame

\* one pass of _capture_loop that raised: the error is counted, and with
\* max_errors errors in a row the loop clears the flag and ends
capture_failed ==
    /\ screenshot.thread = "alive" /\ screenshot.is_running
    /\ screenshot' =
          IF screenshot.error_count + 1 >= MAX_ERRORS
          THEN [screenshot EXCEPT !.error_count = MAX_ERRORS,
                                  !.is_running = FALSE, !.thread = "dead"]
          ELSE [screenshot EXCEPT !.error_count = @ + 1]
    /\ resp' = Resp("_capture_loop", screenshot.current_session_id, 0, FALSE)
    /\ UNCHANGED <<dialect, db_test, db_face, now, users, next_user_id,
                   sessions, next_session_id, db_child, exam_results>>

CaptureSaved == \E image_path \in PathIn : capture_saved(image_path)

TerminateFewSessions == \E sid \in FewSessionIdIn : terminate_session(sid)

NextCapture ==
    \/ CreateSessionTest1
    \/ SubmitOneAnswer
    \/ TerminateFewSessions
    \/ StartScreenshotService
    \/ stop_screenshot_service
    \/ ThreadExit
    \/ CaptureSaved
    \/ capture_failed

SpecCapture == Init /\ [][NextCapture]_vars

\* -------------------------------------------------------- face verification
\* uploaded photos: an empty file, and images showing no, one or two faces
PhotoIn == {"empty", "no_face", "face", "two_faces"}
\* user 1 is stored; no user has id 5
UserIdIn == {1, 5}
\* match_score = 1 - face_distance, in tenths
MatchScoreIn == {5, 6}

\* len(face_recognition.face_locations(image))
FaceLocations(photo) ==
    CASE photo = "face" -> 1
      [] photo = "two_faces" -> 2
      [] OTHER -> 0

\* the lookup that finds no record
NoVerification(user_id) == None

\* db.query(FaceVerification).filter(user_id == user_id).first(): the index
\* of the user's record in the table, None without one
FirstVerification(user_id) ==
    IF \E i \in 1 .. Len(face_verifications) :
          face_verifications[i].user_id = user_id
    THEN CHOOSE i \in 1 .. Len(face_verifications) :
           /\ face_verifications[i].user_id = user_id
           /\ \A j \in 1 .. i - 1 : face_verifications[j].user_id # user_id
    ELSE None

\* the insert of a face_verifications row is rejected for a user that is not
\* stored where the database enforces foreign keys
UserKeyFails(user_id) ==
    dialect = "mssql" /\ user_id \notin {u.id : u \in users}

\* IsMatch with the threshold lowered to 0.5
IsMatchFrom5(match_score) == match_score >= 5

\* is_match = match_score >= 0.6
IsMatch(match_score) == match_score >= 6

face_frame ==
    UNCHANGED <<dialect, db_test, now, users, next_user_id, sessions,
                next_session_id, db_child, screenshot, exam_results>>

\* a face request arrives: its handler is suspended in await photo.read()
receive(op, user_id, photo) ==
    /\ Cardinality(requests) < MaxRequests
    /\ [op |-> op, user_id |-> user_id, photo |-> photo] \notin requests
    /\ requests' = requests \cup
                      {[op |-> op, user_id |-> user_id, photo |-> photo]}
    /\ resp' = Resp("receive", user_id, 0, TRUE)
    /\ UNCHANGED <<face_verifications, next_verification_id>>
    /\ face_frame

\* FaceVerificationService.upload_id_photo: what it leaves in the table, the
\* id of the record it stored (None when it stored nothing) and its success
\* flag; saved is whether FileService wrote the file
UploadOutcome(user_id, photo, saved) ==
    LET found == FirstVerification(user_id)
        id == NewId({face_verifications[i].id :
                        i \in 1 .. Len(face_verifications)},
                    next_verification_id)
        nothing == [rows |-> face_verifications,
                    next_id |-> next_verification_id,
                    ret |-> None, ok |-> FALSE]
    IN  IF ~saved THEN nothing
        ELSE IF found # None
        THEN [rows |-> [face_verifications EXCEPT
                           ![found].id_photo_path = photo,
                           ![found].is_verified = FALSE],
              next_id |-> next_verification_id,
              ret |-> face_verifications[found].id,
              ok |-> FaceLocations(photo) > 0]
        ELSE IF UserKeyFails(user_id) THEN nothing
        ELSE [rows |-> Append(face_verifications,
                         [id |-> id, user_id |-> user_id,
                          id_photo_path |-> photo, is_verified |-> FALSE,
                          match_score |-> None]),
              next_id |-> next_verification_id + 1,
              ret |-> id,
              ok |-> FaceLocations(photo) > 0]

\* POST /api/auth/upload-id-photo, resumed after photo.read(): an empty file
\* raises 400 inside the try block, whose except clause answers 500; the
\* service call runs to its return without another suspension
upload_id_photo(user_id, photo) ==
    /\ [op |-> "upload_id_photo", user_id |-> user_id, photo |-> photo]
          \in requests
    /\ requests' = requests \
          {[op |-> "upload_id_photo", user_id |-> user_id, photo |-> photo]}
    /\ IF photo = "empty"
       THEN /\ resp' = Resp("upload_id_photo", user_id, 500, FALSE)
            /\ UNCHANGED <<face_verifications, next_verification_id>>
       ELSE \E saved \in BOOLEAN :
            \E out \in {UploadOutcome(user_id, photo, saved)} :
               /\ Len(out.rows) <= MaxVerifications
               /\ face_verifications' = out.rows
               /\ next_verification_id' = out.next_id
               /\ resp' = [Resp("upload_id_photo", user_id, 201, out.ok)
                              EXCEPT !.ret = out.ret]
    /\ face_frame

\* FaceVerificationService.verify_face: the record is updated only when the
\* ID photo shows a face and the webcam photo shows exactly one
VerifyOutcome(user_id, photo, saved, match_score) ==
    LET found == FirstVerification(user_id) IN
    IF \/ found = None
       \/ ~saved
       \/ FaceLocations(face_verifications[found].id_photo_path) = 0
       \/ FaceLocations(photo) # 1
    THEN [rows |-> face_verifications, ret |-> None, ok |-> FALSE]
    ELSE [rows |-> [face_verifications EXCEPT
                       ![found].is_verified = IsMatch(match_score),
                       ![found].match_score = match_score],
          ret |-> face_verifications[found].id,
          ok |-> IsMatch(match_score)]

\* POST /api/auth/verify-face, resumed after photo.read()
verify_face(user_id, photo) ==
    /\ [op |-> "verify_face", user_id |-> user_id, photo |-> photo]
          \in requests
    /\ requests' = requests \
          {[op |-> "verify_face", user_id |-> user_id, photo |-> photo]}
    /\ IF photo = "empty"
       THEN /\ resp' = Resp("verify_face", user_id, 500, FALSE)
            /\ UNCHANGED face_verifications
       ELSE \E saved \in BOOLEAN, match_score \in MatchScoreIn :
            \E out \in {VerifyOutcome(user_id, photo, saved, match_score)} :
               /\ face_verifications' = out.rows
               /\ resp' = [Resp("verify_face", user_id, 200, out.ok)
                              EXCEPT !.ret = out.ret]
    /\ UNCHANGED next_verification_id
    /\ face_frame

ReceiveUpload ==
    \E user_id \in UserIdIn, photo \in PhotoIn :
        receive("upload_id_photo", user_id, photo)

ReceiveVerify ==
    \E user_id \in UserIdIn, photo \in PhotoIn :
        receive("verify_face", user_id, photo)

UploadIdPhoto ==
    \E user_id \in UserIdIn, photo \in PhotoIn : upload_id_photo(user_id, photo)

VerifyFace ==
    \E user_id \in UserIdIn, photo \in PhotoIn : verify_face(user_id, photo)

NextFace ==
    \/ ReceiveUpload
    \/ ReceiveVerify
    \/ UploadIdPhoto
    \/ VerifyFace

SpecFace == Init /\ [][NextFace]_vars

\* ------------------------------------------- create_session, step by step
\* POST /api/sessions/start is a plain function, run on a worker thread: other
\* requests run between its queries and its inserts
CreateRequestIn ==
    [test_id : {1, 9}, user_id : {None, 1}, user_name : {"", "Cand"},
     user_email : {"", "cand@example.com", "admin@example.com"}]

\* the request with what its user lookup found
Looked(req) ==
    [op |-> "create_session", req |-> req,
     found |-> UserByEmail(req.user_id, req.user_email)]

create_frame ==
    UNCHANGED <<dialect, db_test, now, db_child, screenshot, exam_results,
                face_verifications, next_verification_id>>

\* create_session up to the user lookup (lines 36-62): the three checks
\* raise ValueError, which rolls back and leaves the call
create_session_lookup(req) ==
    /\ IF \/ req.test_id \notin TestIds
          \/ Missing(req.user_email)
          \/ (Looked(req).found = {} /\ Missing(req.user_name))
       THEN /\ resp' = [Resp("create_session", None, 500, FALSE)
                           EXCEPT !.req = req]
            /\ UNCHANGED requests
       ELSE /\ Cardinality(requests) < MaxRequests
            /\ requests # {} => SharedDatabase
            /\ Looked(req) \notin requests
            /\ requests' = requests \cup {Looked(req)}
            /\ resp' = [Resp("create_session lookup", None, 0, TRUE)
                           EXCEPT !.req = req]
    /\ UNCHANGED <<users, next_user_id, sessions, next_session_id>>
    /\ create_frame

\* the unique index on users.email rejects a second user with the email;
\* SQL Server does not hand the identity value of the rejected row out again
EmailTaken(user_email) == \E u \in users : u.email = user_email

\* the foreign key of test_sessions.test_id rejects a session of a test that
\* is no longer stored, where the database enforces foreign keys
TestKeyFails(test_id) == dialect = "mssql" /\ test_id \notin TestIds

\* create_session from the insert of the user on (lines 64-101): a user is
\* inserted when the lookup found none, then the session; both are committed
\* together, or a rejected insert rolls everything back
create_session_insert(r) ==
    LET req == r.req
        user == IF r.found # {} THEN CHOOSE u \in r.found : TRUE
                ELSE [id |-> next_user_id, name |-> req.user_name,
                      email |-> req.user_email, role |-> "candidate"]
        id == NewId(DOMAIN sessions, next_session_id)
    IN  /\ r \in requests
        /\ requests' = requests \ {r}
        /\ next_session_id <= MaxFewSessions + 1
        /\ (r.found = {} => next_user_id <= MaxUsers)
        /\ IF \/ r.found = {} /\ EmailTaken(req.user_email)
              \/ TestKeyFails(req.test_id)
           THEN /\ resp' = [Resp("create_session", None, 500, FALSE)
                               EXCEPT !.req = req]
                /\ next_user_id' = IF dialect = "mssql" THEN next_user_id + 1
                                   ELSE next_user_id
                /\ UNCHANGED <<users, sessions, next_session_id>>
           ELSE /\ users' = users \cup {user}
                /\ next_user_id' = IF r.found = {} THEN next_user_id + 1
                                   ELSE next_user_id
                /\ sessions' = sessions @@
                      (id :> NewSession(req.test_id, user, req.user_email))
                /\ next_session_id' = next_session_id + 1
                /\ resp' = [Resp("create_session", id, 200, TRUE)
                               EXCEPT !.ret = id, !.req = req]
        /\ create_frame

CreateSessionLookup == \E req \in CreateRequestIn : create_session_lookup(req)

CreateSessionInsert ==
    \E r \in {x \in requests : x.op = "create_session"} :
        create_session_insert(r)

NextCreate == CreateSessionLookup \/ CreateSessionInsert

SpecCreate == Init /\ [][NextCreate]_vars

\* ------------------------------------------- permission logs, step by step
\* the service methods are plain functions on the caller's database session:
\* callers on different threads run between the query of
\* _check_recent_permission and the commit of the insert
PermissionOpIn == {"log_permission", "log_camera_permission"}

\* a call that passed its checks and has not yet inserted its row
Checked(k, op, session_id, permission_type, granted) ==
    [k |-> k, op |-> op, session_id |-> session_id,
     permission_type |-> permission_type, granted |-> granted]

\* the checks ahead of the insert: log_permission looks the session up,
\* log_camera_permission does not; both look for a recent log
PermissionRefused(op, session_id, permission_type, granted) ==
    \/ (op = "log_permission" /\ session_id \notin DOMAIN sessions)
    \/ CheckRecentPermission(session_id, permission_type, granted)

permission_frame ==
    UNCHANGED <<dialect, db_test, now, users, next_user_id, sessions,
                next_session_id, user_responses, violations, next_violation_id,
                screen_captures, snapshot_captures, behavioral_anomalies,
                screenshot, exam_results, face_verifications,
                next_verification_id>>

\* log_permission (lines 36-49) and log_camera_permission (line 120-122) up
\* to the duplicate check: None is returned, or the call goes on
log_permission_check(op, session_id, permission_type, granted) ==
    /\ IF PermissionRefused(op, session_id, permission_type, granted)
       THEN /\ resp' = Resp(op, session_id, 200, FALSE)
            /\ UNCHANGED requests
       ELSE /\ Cardinality(requests) < MaxRequests
            /\ requests # {} => SharedDatabase
            /\ \E k \in 1 .. MaxRequests :
                  /\ \A r \in requests : r.k # k
                  /\ \A j \in 1 .. k - 1 : \E r \in requests : r.k = j
                  /\ requests' = requests \cup
                        {Checked(k, op, session_id, permission_type, granted)}
            /\ resp' = Resp("_check_recent_permission", session_id, 0, TRUE)
    /\ UNCHANGED permission_logs
    /\ permission_frame

\* the rest of the call (lines 68-83, 129-143): the row is added with the
\* current time and committed
log_permission_insert(r) ==
    /\ r \in requests
    /\ requests' = requests \ {r}
    /\ \E out \in InsertPermission(r.session_id, r.permission_type,
                                    r.granted) :
          /\ Len(out.rows) <= MaxLogs
          /\ permission_logs' = out.rows
          /\ resp' = Resp(r.op, r.session_id, 200, out.ret)
    /\ permission_frame

LogPermissionCheck ==
    \E session_id \in FewSessionIdIn, permission_type \in {"microphone"},
       granted \in BOOLEAN :
        log_permission_check("log_permission", session_id, permission_type,
                             granted)

LogCameraPermissionCheck ==
    \E session_id \in FewSessionIdIn, granted \in BOOLEAN :
        log_permission_check("log_camera_permission", session_id, "camera",
                             granted)

LogPermissionInsert == \E r \in requests : log_permission_insert(r)

NextPermission ==
    \/ CreateSessionTest1
    \/ Tick
    \/ LogPermissionCheck
    \/ LogCameraPermissionCheck
    \/ LogPermissionInsert

SpecPermission == Init /\ [][NextPermission]_vars

\* ------------------------------------------------------------- delete_test
\* DELETE /api/tests/{test_id} is a plain function, run on a worker thread;
\* delete_test commits twice, first the sessions of the test, then the test
TestIdIn == {1, 9}

SessionsOfTest(test_id) ==
    {sid \in DOMAIN sessions : sessions[sid].test_id = test_id}

\* the rows of a child table that belong to none of the sessions sids
WithoutAll(rows, sids) == SelectSeq(rows, LAMBDA r : r.session_id \notin sids)

\* TestSessionService.delete_sessions_by_test: every session of the test is
\* deleted with its cascade in one commit; a delete the database rejects
\* rolls all of them back and raises
DeleteSessionsByTest(test_id) ==
    LET sids == SessionsOfTest(test_id) IN
    IF \E sid \in sids : DeleteRejected(sid)
    THEN [raised |-> TRUE, sessions |-> sessions,
          violations |-> violations, screen_captures |-> screen_captures,
          behavioral_anomalies |-> behavioral_anomalies,
          user_responses |-> user_responses,
          snapshot_captures |-> snapshot_captures]
    ELSE [raised |-> FALSE,
          sessions |-> [sid \in DOMAIN sessions \ sids |-> sessions[sid]],
          violations |-> WithoutAll(violations, sids),
          screen_captures |-> WithoutAll(screen_captures, sids),
          behavioral_anomalies |-> WithoutAll(behavioral_anomalies, sids),
          user_responses |-> WithoutAll(user_responses, sids),
          snapshot_captures |-> WithoutAll(snapshot_captures, sids)]

tests_frame ==
    UNCHANGED <<dialect, now, users, next_user_id, next_session_id,
                next_violation_id, permission_logs, screenshot, exam_results,
                face_verifications, next_verification_id>>

\* delete_test up to the delete of the test (lines 128-136): False for a
\* test that is not stored; otherwise the sessions of the test are deleted,
\* and a failure to delete them is only logged
delete_test_sessions(test_id) ==
    /\ IF test_id \notin TestIds
       THEN /\ resp' = [Resp("delete_test", None, 200, FALSE)
                           EXCEPT !.req = [test_id |-> test_id]]
            /\ UNCHANGED <<requests, sessions, user_responses, violations,
                           screen_captures, snapshot_captures,
                           behavioral_anomalies>>
       ELSE /\ Cardinality(requests) < MaxRequests
            /\ requests # {} => SharedDatabase
            /\ \A r \in requests : r.op # "delete_test"
            /\ requests' = requests \cup
                              {[op |-> "delete_test", test_id |-> test_id]}
            /\ \E out \in {DeleteSessionsByTest(test_id)} :
                  /\ sessions' = out.sessions
                  /\ violations' = out.violations
                  /\ screen_captures' = out.screen_captures
                  /\ behavioral_anomalies' = out.behavioral_anomalies
                  /\ user_responses' = out.user_responses
                  /\ snapshot_captures' = out.snapshot_captures
            /\ resp' = [Resp("delete_sessions_by_test", None, 0, TRUE)
                           EXCEPT !.req = [test_id |-> test_id]]
    /\ UNCHANGED <<tests, questions>>
    /\ tests_frame

\* the delete of a test whose sessions were kept
SessionsKept(test_id) == FALSE

\* the delete of a test that still has sessions: Test.test_sessions has no
\* delete cascade, so the sessions are updated to test_id NULL, which the
\* NOT NULL column rejects
SessionsRemain(test_id) == SessionsOfTest(test_id) # {}

\* delete_test from db.delete(db_test) on (lines 139-147): the test goes
\* with its questions and their options and True is returned, or the commit
\* raises and is rolled back
delete_test_commit(r) ==
    /\ r \in requests
    /\ requests' = requests \ {r}
    /\ IF SessionsRemain(r.test_id)
       THEN /\ resp' = [Resp("delete_test", None, 500, FALSE)
                           EXCEPT !.req = [test_id |-> r.test_id]]
            /\ UNCHANGED <<tests, questions>>
       ELSE /\ tests' = {t \in tests : t.test_id # r.test_id}
            /\ questions' = [q \in {x \in DOMAIN questions :
                                       questions[x] # r.test_id} |->
                                questions[q]]
            /\ resp' = [Resp("delete_test", None, 200, TRUE)
                           EXCEPT !.req = [test_id |-> r.test_id]]
    /\ UNCHANGED <<sessions, user_responses, violations, screen_captures,
                   snapshot_captures, behavioral_anomalies>>
    /\ tests_frame

DeleteTestSessions == \E test_id \in TestIdIn : delete_test_sessions(test_id)

DeleteTestCommit ==
    \E r \in {x \in requests : x.op = "delete_test"} : delete_test_commit(r)

\* a well-formed request for test 1, looked up
CreateSessionLookupTest1 ==
    create_session_lookup([test_id |-> 1, user_id |-> None,
                           user_name |-> "Cand",
                           user_email |-> "cand@example.com"])

\* a camera permission log of a session, while no request is under way
LogCameraPermissionGranted ==
    /\ requests = {}
    /\ \E session_id \in FewSessionIdIn :
          log_camera_permission(session_id, TRUE)

\* an answer to question 1, while no request is under way
SubmitOneAnswerAlone == requests = {} /\ SubmitOneAnswer

NextTests ==
    \/ CreateSessionLookupTest1
    \/ CreateSessionInsert
    \/ SubmitOneAnswerAlone
    \/ LogCameraPermissionGranted
    \/ DeleteTestSessions
    \/ DeleteTestCommit

SpecTests == Init /\ [][NextTests]_vars

\* ------------------------------------------------------------- create_test
\* POST /api/tests/create is a plain function, run on a worker thread
TestCreateIn ==
    {TestRow(test_id, skill, num_questions) :
        test_id \in {1, 7}, skill \in {"python", "sql"},
        num_questions \in {2, 5}}

\* db.query(Test).filter(Test.test_id == test_id).first()
ExistingTest(test_id) == {t \in tests : t.test_id = test_id}

\* create_test up to its lookup (lines 22-25): a stored test with the
\* test_id is returned as it is
create_test_lookup(test) ==
    /\ IF ExistingTest(test.test_id) # {}
       THEN /\ resp' = [Resp("create_test", None, 200, TRUE)
                           EXCEPT !.req = test,
                                  !.list = <<CHOOSE t \in
                                               ExistingTest(test.test_id) :
                                               TRUE>>]
            /\ UNCHANGED requests
       ELSE /\ Cardinality(requests) < MaxRequests
            /\ requests # {} => SharedDatabase
            /\ requests' = requests \cup
                              {[op |-> "create_test", test |-> test]}
            /\ resp' = [Resp("create_test lookup", None, 0, TRUE)
                           EXCEPT !.req = test]
    /\ UNCHANGED <<tests, questions, sessions, user_responses, violations,
                   screen_captures, snapshot_captures, behavioral_anomalies>>
    /\ tests_frame

\* a tests table without a primary key
PrimaryKeyUnchecked(test_id) == FALSE

\* Test.test_id is the primary key: the insert of a second row with the
\* test_id is rejected
PrimaryKeyFails(test_id) == ExistingTest(test_id) # {}

\* create_test from the insert on (lines 28-43): the row is committed and
\* returned, or the rejected insert is rolled back and raised
create_test_insert(r) ==
    /\ r \in requests
    /\ requests' = requests \ {r}
    /\ IF PrimaryKeyFails(r.test.test_id)
       THEN /\ resp' = [Resp("create_test", None, 500, FALSE)
                           EXCEPT !.req = r.test]
            /\ UNCHANGED tests
       ELSE /\ tests' = tests \cup {r.test}
            /\ resp' = [Resp("create_test", None, 200, TRUE)
                           EXCEPT !.req = r.test, !.list = <<r.test>>]
    /\ UNCHANGED <<questions, sessions, user_responses, violations,
                   screen_captures, snapshot_captures, behavioral_anomalies>>
    /\ tests_frame

CreateTestLookup == \E test \in TestCreateIn : create_test_lookup(test)

CreateTestInsert ==
    \E r \in {x \in requests : x.op = "create_test"} : create_test_insert(r)

NextCreateTest ==
    \/ CreateTestLookup
    \/ CreateTestInsert
    \/ DeleteTestSessions
    \/ DeleteTestCommit

SpecCreateTest == Init /\ [][NextCreateTest]_vars

\* ----------------------------------------------------------- generate_test
\* POST /api/tests/generate is a coroutine that awaits nothing: the handler
\* runs from start to end on the event loop
GenerateTestIdIn == {None, 1, 3, 9}
\* what the question generator gives: the mock questions or the parsed
\* answer of the model (a list of questions without ids), or an error
GeneratedIn == {"raises", "one", "two"}

\* a question as the handler returns it: with its database id when stored
QuestionOut(id, test_id) == [id |-> id, test_id |-> test_id]

\* the list a generator outcome stands for
Generated(outcome, test_id) ==
    CASE outcome = "one" -> <<QuestionOut(None, test_id)>>
      [] outcome = "two" -> <<QuestionOut(None, test_id),
                              QuestionOut(None, test_id)>>
      [] outcome = "raises" -> <<>>

\* QuestionService.get_questions_by_test_id over a questions table: the
\* questions of the test, ordered by id
RECURSIVE Ordered(_, _)
Ordered(ids, test_id) ==
    IF ids = {} THEN <<>>
    ELSE LET least == CHOOSE q \in ids : \A x \in ids : q <= x IN
         <<QuestionOut(least, test_id)>> \o Ordered(ids \ {least}, test_id)

get_questions_by_test_id(qs, test_id) ==
    Ordered({q \in DOMAIN qs : qs[q] = test_id}, test_id)

\* QuestionCreate as generate_test builds it: the schema has the fields
\* question_text, correct_answer, test_id and options
QuestionCreate(test_id) ==
    [test_id |-> test_id, question_text |-> "q", correct_answer |-> "a",
     options |-> <<"a", "b", "c", "d">>]

\* QuestionService.create_question over a questions table: the row is
\* built from question.code among others, an attribute a QuestionCreate
\* does not have; the error is raised before anything is added
create_question(qs, question) ==
    IF "code" \in DOMAIN question
    THEN qs @@ ((1 + CHOOSE m \in DOMAIN qs \cup {0} :
                        \A x \in DOMAIN qs : x <= m) :> question.test_id)
    ELSE qs

\* the storing loop of generate_test (lines 222-260): only for a test
\* without stored questions; a question that could not be created is
\* skipped
RECURSIVE StoreQuestions(_, _, _, _)
StoreQuestions(qs, test_id, generated, i) ==
    IF get_questions_by_test_id(qs, test_id) # <<>> /\ i = 1 THEN qs
    ELSE IF i > Len(generated) THEN qs
    ELSE StoreQuestions(create_question(qs, QuestionCreate(test_id)),
                        test_id, generated, i + 1)

\* a response made of the generated questions whatever is stored
GeneratedOnly(saved, generated) == generated

\* the response of generate_test (lines 264-289): the saved questions with
\* their ids when there are any, else the generated ones
SavedOrGenerated(saved, generated) ==
    IF saved # <<>> THEN saved ELSE generated

generate_frame ==
    UNCHANGED <<dialect, db_face, now, users, next_user_id, sessions,
                next_session_id, db_child, screenshot, exam_results>>

\* generate_test: a stored test with questions named by the request is
\* answered with them at once; otherwise the test is created when it is
\* not stored (test_id 1 when the request names none), the questions are
\* generated, stored when the test has none, and the saved ones returned
generate_test(test_id, skill, outcome) ==
    LET id == IF test_id # None THEN test_id ELSE 1
        req == [test_id |-> test_id, skill |-> skill, generated |-> outcome]
        early == /\ test_id # None /\ ExistingTest(test_id) # {}
                 /\ get_questions_by_test_id(questions, test_id) # <<>>
        created == IF ExistingTest(id) # {} THEN tests
                   ELSE tests \cup {TestRow(id, skill, 5)}
        stored == StoreQuestions(questions, id, Generated(outcome, id), 1)
    IN  /\ IF early
           THEN /\ resp' = [Resp("generate_test", None, 200, TRUE)
                               EXCEPT !.req = req,
                                      !.list = get_questions_by_test_id(
                                                   questions, test_id)]
                /\ UNCHANGED <<tests, questions>>
           ELSE IF outcome = "raises"
           THEN /\ tests' = created
                /\ resp' = [Resp("generate_test", None, 500, FALSE)
                               EXCEPT !.req = req]
                /\ UNCHANGED questions
           ELSE /\ tests' = created
                /\ questions' = stored
                /\ resp' = [Resp("generate_test", None, 200, TRUE)
                               EXCEPT !.req = req,
                                      !.list = SavedOrGenerated(
                                          get_questions_by_test_id(stored, id),
                                          Generated(outcome, id))]
        /\ generate_frame

GenerateTest ==
    \E test_id \in GenerateTestIdIn, skill \in {"python", "sql"},
       outcome \in GeneratedIn :
        generate_test(test_id, skill, outcome)

NextGenerate ==
    \/ GenerateTest
    \/ DeleteTestSessions
    \/ DeleteTestCommit

SpecGenerate == Init /\ [][NextGenerate]_vars

\* ----------------------------------------------- capture loop, step by step
\* the capture loop runs on a thread of its own, between the start and stop
\* routes (coroutines, so one at a time) and beside other capture threads
Loops == {r \in requests : r.op = "_capture_loop"}

\* a capture thread: its number, where it is in _capture_loop (at the while
\* check, in the try block, in one of the waits), and whether it is the
\* service's self.thread
Thread(k, pc, own) == [op |-> "_capture_loop", k |-> k, pc |-> pc, own |-> own]

\* stop_for_test is waiting in thread.join
Joining == \E r \in requests : r.op = "stop_for_test"

loop_frame ==
    UNCHANGED <<dialect, db_test, now, users, next_user_id, sessions,
                next_session_id, user_responses, violations,
                next_violation_id, snapshot_captures, behavioral_anomalies,
                permission_logs, exam_results, face_verifications,
                next_verification_id>>

\* POST /api/proctoring/screenshots/start with start_for_test: a started
\* thread becomes self.thread, whatever thread was self.thread before
start_capture_thread(session_id) ==
    /\ ~Joining
    /\ Cardinality(Loops) < MaxThreads
    /\ \E out \in {start_for_test(screenshot, session_id)} :
          /\ screenshot' = out.svc
          /\ requests' =
                IF out.ret
                THEN {Thread(r.k, r.pc, FALSE) : r \in Loops} \cup
                     {Thread(CHOOSE k \in 1 .. MaxThreads :
                                /\ \A r \in Loops : r.k # k
                                /\ \A j \in 1 .. k - 1 :
                                      \E r \in Loops : r.k = j,
                             "check", TRUE)}
                ELSE requests
          /\ resp' = Resp("POST /api/proctoring/screenshots/start",
                          session_id, 200, out.ret)
    /\ UNCHANGED screen_captures
    /\ loop_frame

\* stop_for_test up to the join (lines 116-130): False when the flag is not
\* set; otherwise the flag is cleared
stop_for_test_flag ==
    /\ ~Joining
    /\ IF ~screenshot.is_running
       THEN /\ resp' = Resp("POST /api/proctoring/screenshots/stop", None,
                            200, FALSE)
            /\ UNCHANGED <<screenshot, requests>>
       ELSE /\ screenshot' = [screenshot EXCEPT !.is_running = FALSE]
            /\ requests' = requests \cup {[op |-> "stop_for_test"]}
            /\ resp' = Resp("stop_for_test", None, 0, TRUE)
    /\ UNCHANGED screen_captures
    /\ loop_frame

\* stop_for_test from the end of the join on (lines 130-138): self.thread
\* has exited, or ten seconds have passed with it still in a capture (a
\* thread in a wait looks at the flag every second)
stop_for_test_joined ==
    /\ Joining
    /\ \A r \in Loops : r.own => r.pc = "capture"
    /\ screenshot' = [screenshot EXCEPT !.current_session_id = None]
    /\ requests' = Loops
    /\ resp' = Resp("POST /api/proctoring/screenshots/stop", None, 200, TRUE)
    /\ UNCHANGED screen_captures
    /\ loop_frame

\* the thread leaves _capture_loop
Exited(r, svc) ==
    /\ requests' = requests \ {r}
    /\ screenshot' = IF r.own THEN [svc EXCEPT !.thread = "dead"] ELSE svc

\* the thread goes on at pc
At(r, pc, svc) ==
    /\ requests' = (requests \ {r}) \cup {Thread(r.k, pc, r.own)}
    /\ screenshot' = svc

\* while self.is_running (line 163)
capture_loop_check(r) ==
    /\ r \in Loops /\ r.pc = "check"
    /\ IF screenshot.is_running THEN At(r, "capture", screenshot)
       ELSE Exited(r, screenshot)
    /\ resp' = [Resp("_capture_loop check", None, 0, screenshot.is_running)
                   EXCEPT !.ret = r.k]
    /\ UNCHANGED screen_captures
    /\ loop_frame

\* the try block taking and saving a screenshot (lines 167-197): the file is
\* entered in screen_captures when its folder names a session, and the
\* error count is reset
capture_loop_capture(r, image_path) ==
    /\ r \in Loops /\ r.pc = "capture"
    /\ IF screenshot.current_session_id = None THEN UNCHANGED screen_captures
       ELSE \E out \in {MediaEntry(screen_captures,
                                    screenshot.current_session_id,
                                    image_path)} :
               /\ Len(out.rows) <= MaxRows
               /\ screen_captures' = out.rows
    /\ At(r, "wait", [screenshot EXCEPT !.error_count = 0])
    /\ resp' = [Resp("_capture_loop capture",
                      screenshot.current_session_id, 0, TRUE)
                   EXCEPT !.ret = r.k]
    /\ loop_frame

\* the error check that lets max_errors errors through
MoreThanMaxErrors(error_count) == error_count > MAX_ERRORS

\* self.error_count >= self.max_errors
TooManyErrors(error_count) == error_count >= MAX_ERRORS

\* the try block raising (lines 207-214): the error is counted, and with too
\* many errors the flag is cleared and the loop left
capture_loop_error(r) ==
    /\ r \in Loops /\ r.pc = "capture"
    /\ \E svc \in {[screenshot EXCEPT !.error_count = @ + 1]} :
          IF TooManyErrors(svc.error_count)
          THEN Exited(r, [svc EXCEPT !.is_running = FALSE])
          ELSE At(r, "wait", svc)
    /\ resp' = [Resp("_capture_loop capture",
                      screenshot.current_session_id, 0, FALSE)
                   EXCEPT !.ret = r.k]
    /\ UNCHANGED screen_captures
    /\ loop_frame

\* a wait that does not look at the flag
WaitSleepsOn(svc) == TRUE

\* if not self.is_running: return, before each time.sleep(1)
WaitGoesOn(svc) == svc.is_running

\* the waits (lines 201-205 and 218-221): the thread returns when it finds
\* the flag cleared, and is back at the while check after the interval
capture_loop_wait(r) ==
    /\ r \in Loops /\ r.pc = "wait"
    /\ IF WaitGoesOn(screenshot) THEN At(r, "check", screenshot)
       ELSE Exited(r, screenshot)
    /\ resp' = [Resp("_capture_loop wait", None, 0, screenshot.is_running)
                   EXCEPT !.ret = r.k]
    /\ UNCHANGED screen_captures
    /\ loop_frame

StartCaptureThread ==
    \E session_id \in 1 .. MaxFewSessions : start_capture_thread(session_id)

CaptureLoopCheck == \E r \in Loops : capture_loop_check(r)

CaptureLoopCapture ==
    \E r \in Loops, image_path \in PathIn : capture_loop_capture(r, image_path)

CaptureLoopError == \E r \in Loops : capture_loop_error(r)

CaptureLoopWait == \E r \in Loops : capture_loop_wait(r)

\* a step of a capture thread
CaptureLoopStep ==
    \/ CaptureLoopCheck
    \/ CaptureLoopCapture
    \/ CaptureLoopError
    \/ CaptureLoopWait

NextLoop ==
    \/ StartCaptureThread
    \/ stop_for_test_flag
    \/ stop_for_test_joined
    \/ CaptureLoopStep

SpecLoop == Init /\ [][NextLoop]_vars

\* every call in the loop returns: a thread that can take a step takes one
SpecLoopFair == SpecLoop /\ WF_vars(CaptureLoopStep)

\* ================================================================== claims
Statuses == {"in_progress", "completed", "terminated"}

\* C1: a session's status only ever changes from in_progress to completed (by
\* submit_test) or from in_progress to terminated (by terminate_session);
\* a completed or terminated session keeps its status under both calls
C1_StatusOnlyLeavesInProgress ==
    [][\A s \in DOMAIN sessions \cap DOMAIN sessions' :
         sessions'[s].status # sessions[s].status =>
            /\ sessions[s].status = "in_progress"
            /\ \/ /\ sessions'[s].status = "completed"
                  /\ resp'.op \in {"submit_test", "POST /api/sessions/submit",
                                   "POST /api/sessions/{id}/submit"}
               \/ /\ sessions'[s].status = "terminated"
                  /\ resp'.op \in {"terminate_session",
                                   "POST /api/sessions/{id}/terminate"}]_vars

\* an answer the statement counts: its question belongs to the test and its
\* selected option is a stored option marked correct
CountedAsStated(test_id, a) ==
    /\ a.question_id \in DOMAIN Questions
    /\ Questions[a.question_id] = test_id
    /\ a.selected_option_id \in DOMAIN Options
    /\ Options[a.selected_option_id].is_correct

\* an answer counted when the option must also be one of the test's options
CountedOfTest(test_id, a) ==
    /\ CountedAsStated(test_id, a)
    /\ Questions[Options[a.selected_option_id].question_id] = test_id

\* the results of a session agree with its score: total_questions counts the
\* questions of its test and percentage is score / total_questions * 100
ResultsAgree(session, score) ==
    LET total == Cardinality({q \in DOMAIN Questions :
                                 Questions[q] = session.test_id})
    IN  /\ session.score = score
        /\ session.total_questions = total
        /\ IF total = 0 THEN session.percentage = 0
           ELSE session.percentage * total = score * 100

\* C2 as stated: after submit_test succeeds the score is the number of
\* answers whose question belongs to the session's test and whose selected
\* option is a stored option marked correct; total_questions is the number
\* of questions of the test and percentage is score / total_questions * 100
C2_ScoreCountsStoredCorrectOptions ==
    (resp.op = "submit_test" /\ resp.ok) =>
        ResultsAgree(sessions[resp.sid],
            Cardinality({i \in 1 .. Len(resp.answers) :
                CountedAsStated(sessions[resp.sid].test_id, resp.answers[i])}))

\* C2 amended: the selected option must be a stored option of a question of
\* the session's test
C2_ScoreCountsCorrectOptionsOfTest ==
    (resp.op = "submit_test" /\ resp.ok) =>
        ResultsAgree(sessions[resp.sid],
            Cardinality({i \in 1 .. Len(resp.answers) :
                CountedOfTest(sessions[resp.sid].test_id, resp.answers[i])}))

\* a submission scored one of two
C2_Witness ==
    /\ resp.op = "submit_test" /\ resp.ok
    /\ sessions[resp.sid].score = 1
    /\ sessions[resp.sid].total_questions = 2
    /\ sessions[resp.sid].percentage = 50

\* C3: every stored session has one of the three statuses, and the session
\* create_session just returned is in progress with end_time, score,
\* total_questions and percentage unset
C3_StatusAndFreshSession ==
    /\ \A s \in DOMAIN sessions : sessions[s].status \in Statuses
    /\ (resp.op = "create_session" /\ resp.ok) =>
          /\ resp.ret \in DOMAIN sessions
          /\ sessions[resp.ret].status = "in_progress"
          /\ sessions[resp.ret].end_time = None
          /\ sessions[resp.ret].score = None
          /\ sessions[resp.ret].total_questions = None
          /\ sessions[resp.ret].percentage = None

\* create_session has just returned the second session
C3_Witness ==
    /\ resp.op = "create_session" /\ resp.ok /\ resp.ret = 2
    /\ \E s \in DOMAIN sessions : sessions[s].status = "completed"

\* C4: log_violation stores a row only for a stored session: for a stored
\* session exactly one row, tied to it, is added; for an unknown id it
\* returns None and the violations table is unchanged
C4_LogViolationNeedsSession ==
    [][(resp'.op = "log_violation" /\ resp'.db) =>
          IF resp'.sid \in DOMAIN sessions
          THEN /\ Len(violations') = Len(violations) + 1
               /\ SubSeq(violations', 1, Len(violations)) = violations
               /\ violations'[Len(violations')].session_id = resp'.sid
               /\ resp'.ret = violations'[Len(violations')].id
          ELSE /\ violations' = violations
               /\ resp'.ret = None]_vars

\* log_violation returned None for an unknown session after a row was stored
C4_Witness ==
    /\ resp.op = "log_violation"
    /\ resp.sid \notin DOMAIN sessions
    /\ resp.ret = None
    /\ violations # <<>>

\* the rows of a child table that reference session sid
Referencing(rows, sid) ==
    {i \in 1 .. Len(rows) : rows[i].session_id = sid}

C6_StoredTypeIsKnown ==
    [][(/\ resp'.op \in {"log_violation", "log_permission_event"}
        /\ Len(violations') > Len(violations))
          => violations'[Len(violations')].violation_type
                \in VIOLATION_TYPES]_vars

\* C7 as stated: both listings return a session's violations in the order
\* they were inserted
C7_ListedInInsertionOrder ==
    resp.op \in {"get_session_violations", "get_session_violations_summary"}
       => \A i, j \in 1 .. Len(resp.list) :
             i < j => resp.list[i].id < resp.list[j].id

\* C7 amended: both listings return exactly the session's violations, by
\* non-decreasing timestamp
C7_ListedByTimestamp ==
    resp.op \in {"get_session_violations", "get_session_violations_summary"}
       => /\ {resp.list[i] : i \in 1 .. Len(resp.list)}
                = {violations[i] : i \in {k \in 1 .. Len(violations) :
                                    violations[k].session_id = resp.sid}}
          /\ \A i, j \in 1 .. Len(resp.list) :
                i < j => /\ resp.list[i] # resp.list[j]
                         /\ resp.list[i].timestamp <= resp.list[j].timestamp

\* a listing that returned the later-stored violation first
C7_Witness ==
    /\ resp.op = "get_session_violations_summary"
    /\ Len(resp.list) = 2
    /\ resp.list[1].id > resp.list[2].id
    /\ resp.list[1].timestamp < resp.list[2].timestamp

\* C8: the terminate and delete routes answer 404 for a session id that is
\* not stored
C8_UnknownSessionIs404 ==
    [][\A sid \in SessionIdIn :
         /\ sid \notin DOMAIN sessions
         /\ terminate_session_route(sid) \/ delete_session_route(sid)
         => resp'.code = 404]_vars

\* C9: the exam start and submit routes answer 401 when session validation
\* reports an error and 403 when the validated roles lack candidate
C9_ExamAuthStatus ==
    resp.op \in {"POST /api/exam/start", "POST /api/exam/submit"} =>
        /\ validate_session(resp.auth) = "error" => resp.code = 401
        /\ (validate_session(resp.auth) = "response"
               /\ "candidate" \notin resp.roles) => resp.code = 403

\* C10: the validation endpoint reports valid exactly for a stored session
\* in progress
C10_ValidIffInProgress ==
    resp.op = "GET /api/sessions/validate/{id}" =>
        /\ resp.valid <=> /\ resp.sid \in DOMAIN sessions
                          /\ sessions[resp.sid].status = "in_progress"
        /\ resp.sid \notin DOMAIN sessions => ~resp.valid
        /\ resp.sid \in DOMAIN sessions =>
              (sessions[resp.sid].status \in {"completed", "terminated"}
                  => ~resp.valid)

\* a session in progress was validated
C10_Witness ==
    /\ resp.op = "GET /api/sessions/validate/{id}"
    /\ resp.sid \in DOMAIN sessions
    /\ sessions[resp.sid].status = "in_progress"
    /\ resp.valid

\* C11: the record upload_id_photo stored is unverified, and a record becomes
\* verified only by a verify_face call for its user whose match score is at
\* least 0.6
C11_UnverifiedUntilMatch ==
    [][/\ (resp'.op = "upload_id_photo" /\ resp'.ret # None) =>
             \A i \in 1 .. Len(face_verifications') :
                face_verifications'[i].id = resp'.ret =>
                   ~face_verifications'[i].is_verified
       /\ \A i \in 1 .. Len(face_verifications') :
             (/\ face_verifications'[i].is_verified
              /\ (i > Len(face_verifications)
                     \/ ~face_verifications[i].is_verified)) =>
                /\ resp'.op = "verify_face"
                /\ resp'.sid = face_verifications'[i].user_id
                /\ face_verifications'[i].match_score >= 6]_vars

\* a new ID photo was stored for a user whose face had been verified
C11_Witness ==
    /\ resp.op = "upload_id_photo" /\ resp.ret # None
    /\ \E i \in 1 .. Len(face_verifications) :
          /\ face_verifications[i].id = resp.ret
          /\ face_verifications[i].match_score = 6
          /\ ~face_verifications[i].is_verified

\* C12: no two face verification records have the same user, and after an
\* upload_id_photo call that stored a photo exactly one record of that user
\* exists, other requests being in flight or not
C12_OneVerificationPerUser ==
    /\ \A i, j \in 1 .. Len(face_verifications) :
          face_verifications[i].user_id = face_verifications[j].user_id
             => i = j
    /\ (resp.op = "upload_id_photo" /\ resp.ret # None) =>
          Cardinality({i \in 1 .. Len(face_verifications) :
                         face_verifications[i].user_id = resp.sid}) = 1

\* a second photo was stored for a user while a third upload for the same
\* user was in flight
C12_Witness ==
    /\ resp.op = "upload_id_photo" /\ resp.ret # None
    /\ \E r \in requests : r.op = "upload_id_photo" /\ r.user_id = resp.sid
    /\ \E i \in 1 .. Len(face_verifications) :
          /\ face_verifications[i].user_id = resp.sid
          /\ face_verifications[i].match_score # None

\* C13: terminate_session on a completed or terminated session succeeds and
\* leaves the session row (status, end_time, score, total_questions,
\* percentage) and the screenshot service as they were
C13_EndedSessionUntouched ==
    [][(/\ resp'.op = "terminate_session"
        /\ resp'.sid \in DOMAIN sessions
        /\ sessions[resp'.sid].status \in {"completed", "terminated"}) =>
          /\ resp'.ok
          /\ sessions' = sessions
          /\ screenshot' = screenshot]_vars

\* terminate_session returned a completed session while screenshots were
\* being captured
C13_Witness ==
    /\ resp.op = "terminate_session" /\ resp.ok
    /\ sessions[resp.sid].status = "completed"
    /\ sessions[resp.sid].score = 1
    /\ screenshot.is_running /\ screenshot.thread = "alive"

\* C14: when terminate_session terminates a session in progress for which
\* the screenshot service is running, the service is stopped (flag cleared,
\* no current session) when the call returns
C14_TerminateStopsScreenshots ==
    [][(/\ resp'.op = "terminate_session"
        /\ resp'.sid \in DOMAIN sessions
        /\ sessions[resp'.sid].status = "in_progress"
        /\ screenshot.is_running /\ screenshot.thread = "alive"
        /\ screenshot.current_session_id = resp'.sid) =>
          /\ ~screenshot'.is_running
          /\ screenshot'.current_session_id = None]_vars

\* C15: when the screenshot block of terminate_session raises, the session
\* in progress is still stored as terminated with an end_time, and the call
\* succeeds
C15_TerminatedDespiteError ==
    [][(/\ resp'.op = "terminate_session"
        /\ resp'.sid \in DOMAIN sessions
        /\ sessions[resp'.sid].status = "in_progress"
        /\ TerminateScreenshot(screenshot, resp'.sid).raised) =>
          /\ resp'.ok
          /\ sessions'[resp'.sid].status = "terminated"
          /\ sessions'[resp'.sid].end_time = NowIST]_vars

\* a session was terminated while the screenshot service was active, so the
\* screenshot block had raised
C15_Witness ==
    /\ resp.op = "terminate_session" /\ resp.ok
    /\ sessions[resp.sid].status = "terminated"
    /\ sessions[resp.sid].end_time # None
    /\ screenshot.is_running /\ screenshot.thread = "alive"

C17_SessionUserIsEmailOwner ==
    [][/\ (resp'.op = "create_session" /\ resp'.ok) =>
             /\ sessions'[resp'.ret].user_email = resp'.req.user_email
             /\ \E u \in users' :
                   /\ u.email = resp'.req.user_email
                   /\ sessions'[resp'.ret].user_id = u.id
                   /\ sessions'[resp'.ret].user_name = u.name
       /\ users' # users =>
             /\ resp'.op = "create_session" /\ resp'.ok
             /\ \A u \in users : u.email # resp'.req.user_email
             /\ \E u \in users' \ users :
                   /\ users' = users \cup {u}
                   /\ u.email = resp'.req.user_email
                   /\ u.role = "candidate"
       /\ \A u, v \in users' : (u.email = v.email \/ u.id = v.id) => u = v
      ]_vars

\* a session was created for the stored admin by a request that named
\* another user_name and no user_id, after a user had been added
C17_Witness ==
    /\ resp.op = "create_session" /\ resp.ok
    /\ resp.req.user_email = "admin@example.com"
    /\ resp.req.user_name = "Cand" /\ resp.req.user_id = None
    /\ sessions[resp.ret].user_id = 1
    /\ sessions[resp.ret].user_name = "Admin"
    /\ Cardinality(users) = 2

\* C18: create_session fails and leaves sessions and users as they were when
\* the test is not stored, when user_email is missing, or when no user has
\* the email and user_name is missing
C18_RejectedCreateChangesNothing ==
    [][(/\ resp'.op = "create_session"
        /\ \/ resp'.req.test_id \notin Tests
           \/ resp'.req.user_email = ""
           \/ /\ \A u \in users : u.email # resp'.req.user_email
              /\ resp'.req.user_name = "") =>
          /\ ~resp'.ok /\ resp'.code = 500
          /\ sessions' = sessions
          /\ users' = users]_vars

\* a request without user_name for an email no user has was rejected after a
\* session had been created
C18_Witness ==
    /\ resp.op = "create_session" /\ ~resp.ok
    /\ resp.req.test_id = 1
    /\ resp.req.user_email = "cand@example.com"
    /\ resp.req.user_name = ""
    /\ \A u \in users : u.email # "cand@example.com"
    /\ DOMAIN sessions # {}

\* C19: every completed session has a score of at most total_questions and a
\* percentage between 0 and 100
C19_ScoreWithinTotal ==
    \A s \in DOMAIN sessions :
        sessions[s].status = "completed" =>
            /\ sessions[s].score <= sessions[s].total_questions
            /\ sessions[s].percentage >= 0
            /\ sessions[s].percentage <= 100

\* C20: every stored user response pairs a question of its session's test
\* with an option of that question
C20_ResponseOptionOfQuestion ==
    \A i \in 1 .. Len(user_responses) :
        /\ user_responses[i].session_id \in DOMAIN sessions
        /\ Questions[user_responses[i].question_id]
              = sessions[user_responses[i].session_id].test_id
        /\ Options[user_responses[i].selected_option_id].question_id
              = user_responses[i].question_id

\* C21: no two stored user responses have the same session and the same
\* question
C21_OneResponsePerQuestion ==
    \A i, j \in 1 .. Len(user_responses) :
        (/\ user_responses[i].session_id = user_responses[j].session_id
         /\ user_responses[i].question_id = user_responses[j].question_id) =>
            i = j

\* C22: a stored session has no end_time exactly when it is in progress, and
\* a completed session has a score, a number of questions and a percentage
C22_EndTimeIffEnded ==
    \A s \in DOMAIN sessions :
        /\ sessions[s].end_time = None <=> sessions[s].status = "in_progress"
        /\ sessions[s].status = "completed" =>
              /\ sessions[s].score # None
              /\ sessions[s].total_questions # None
              /\ sessions[s].percentage # None

\* a completed and a terminated session are stored side by side
C22_Witness ==
    /\ DOMAIN sessions = {1, 2}
    /\ sessions[1].status = "completed" /\ sessions[1].score = 1
    /\ sessions[2].status = "terminated" /\ sessions[2].score = None
    /\ sessions[2].end_time # None

C24_NoSessionOfDeletedTest ==
    [][/\ (resp'.op = "delete_test" /\ resp'.ok) =>
             /\ resp'.req.test_id \notin TestIds'
             /\ \A sid \in DOMAIN sessions' :
                   sessions'[sid].test_id # resp'.req.test_id
       /\ \A sid \in DOMAIN sessions' : sessions'[sid].test_id \in TestIds'
      ]_vars

\* test 1 was deleted after a session of it had been stored, while a
\* create_session request for it was past its lookups
C24_Witness ==
    /\ resp.op = "delete_test" /\ resp.ok /\ resp.req.test_id = 1
    /\ next_session_id > 1
    /\ \E r \in requests : r.op = "create_session"

\* C25: a create_test call for a test_id that is stored leaves the tests
\* table as it was and, when it returns, returns the stored test; a test is
\* added only by a call that returns it; no two stored tests share a
\* test_id
C25_CreateTestIdempotent ==
    [][/\ (/\ resp'.op = "create_test"
           /\ resp'.req.test_id \in TestIds) =>
             /\ tests' = tests
             /\ resp'.ok =>
                   /\ resp'.list[1] \in tests
                   /\ resp'.list[1].test_id = resp'.req.test_id
       /\ (resp'.op = "create_test" /\ resp'.ok) => resp'.list[1] \in tests'
       /\ \A t, u \in tests' : t.test_id = u.test_id => t = u
      ]_vars

\* a request for test 1 with another skill was answered with the stored
\* test 1 after test 7 had been created
C25_Witness ==
    /\ resp.op = "create_test" /\ resp.ok
    /\ resp.req.test_id = 1 /\ resp.req.skill = "sql"
    /\ resp.list[1].skill = "python"
    /\ 7 \in TestIds

C27_StopsAfterMaxErrors ==
    [][resp'.op = "_capture_loop capture" =>
          /\ resp'.ok =>
                /\ screenshot'.error_count = 0
                /\ screenshot'.is_running = screenshot.is_running
                /\ \E r \in Loops' : r.k = resp'.ret
          /\ ~resp'.ok =>
                /\ screenshot'.error_count = screenshot.error_count + 1
                /\ screenshot'.error_count >= MAX_ERRORS =>
                      /\ ~screenshot'.is_running
                      /\ \A r \in Loops' : r.k # resp'.ret
                /\ screenshot'.error_count < MAX_ERRORS =>
                      /\ screenshot'.is_running = screenshot.is_running
                      /\ \E r \in Loops' : r.k = resp'.ret]_vars

\* the only capture thread left the loop on its third failure in a row,
\* after a capture that had been saved and entered in the database
C27_Witness ==
    /\ resp.op = "_capture_loop capture" /\ ~resp.ok
    /\ screenshot.error_count = MAX_ERRORS
    /\ ~screenshot.is_running /\ screenshot.thread = "dead"
    /\ Loops = {}
    /\ screen_captures # <<>>

\* C28: record_violation for a session id that is not stored leaves the
\* violations table as it was and returns a violation with id 0; for a stored
\* session it adds exactly one row, a row of that session, and returns it
C28_RecordViolationPlaceholder ==
    [][resp'.op = "record_violation" /\ resp'.code = 200 =>
          IF resp'.sid \in DOMAIN sessions
          THEN /\ Len(violations') = Len(violations) + 1
               /\ SubSeq(violations', 1, Len(violations)) = violations
               /\ violations'[Len(violations')].session_id = resp'.sid
               /\ violations'[Len(violations')].id = resp'.ret
               /\ resp'.ret # 0
          ELSE /\ violations' = violations
               /\ resp'.ret = 0]_vars

\* a call for an unknown session answered with the placeholder while a
\* violation of a stored session is in the table
C28_Witness ==
    /\ resp.op = "record_violation" /\ resp.code = 200
    /\ resp.sid \notin DOMAIN sessions
    /\ resp.ret = 0
    /\ \E i \in DOMAIN violations : violations[i].session_id \in DOMAIN sessions

\* a capture thread with number k is alive
Alive(k) == \E r \in Loops : r.k = k

\* a capture thread that finds the flag cleared, at the while check or in a
\* wait, leaves the loop
ExitsOnClearedFlag ==
    [][\A r \in Loops :
          /\ ~screenshot.is_running
          /\ resp'.op \in {"_capture_loop check", "_capture_loop wait"}
          /\ resp'.ret = r.k
          => ~Alive(r.k)']_vars

\* with the flag cleared, every capture thread exits unless the flag is set
\* again
ExitsEventually ==
    \A k \in 1 .. MaxThreads :
        (~screenshot.is_running /\ Alive(k))
            ~> (~Alive(k) \/ screenshot.is_running)

\* no screenshot is taken while the flag is cleared
NoCaptureOnClearedFlag ==
    [][~(/\ ~screenshot.is_running
         /\ resp'.op = "_capture_loop capture"
         /\ resp'.ok)]_vars

\* the capture a thread was in when the flag was cleared is its last: after
\* it the thread is in a wait, or gone
LastCaptureOnClearedFlag ==
    [][\A r \in Loops :
          /\ ~screenshot.is_running
          /\ resp'.op = "_capture_loop capture"
          /\ resp'.ret = r.k
          => \A q \in Loops' : q.k = r.k => q.pc = "wait"]_vars

\* C29 as stated: once the flag is cleared the capture thread exits, as long
\* as the flag stays cleared, and takes no screenshot before it does
C29_ExitsWithoutCapture ==
    /\ ExitsOnClearedFlag
    /\ ExitsEventually
    /\ NoCaptureOnClearedFlag

\* C29, amended: once the flag is cleared the capture thread exits, as long
\* as the flag stays cleared: it looks at the flag before every capture and
\* before every second of a wait, and the one capture it takes with the flag
\* cleared is the capture it had begun before
C29_ExitsAfterCaptureInProgress ==
    /\ ExitsOnClearedFlag
    /\ ExitsEventually
    /\ LastCaptureOnClearedFlag

\* stop_for_test cleared the flag and waits in its join; the capture thread
\* found the flag cleared in its wait and has left the loop
C29_Witness ==
    /\ Joining
    /\ resp.op = "_capture_loop wait" /\ ~resp.ok
    /\ ~screenshot.is_running
    /\ Loops = {}

\* C30: at most one capture-loop thread is alive at any time, under every
\* interleaving of start_for_test, stop_for_test and the capture loop
C30_OneCaptureThread == Cardinality(Loops) <= 1
====
